---- MODULE Spec2Model ----
(***************************************************************************)
(* Model of the Reporter backend (FastAPI handlers over a MySQL schema).   *)
(*                                                                         *)
(* Tables are modelled by their rows.  The votes table has no uniqueness   *)
(* constraint that the handlers rely on, so it is a bag of                 *)
(* (reportID, userID, voteType) rows.  Each handler is one action; the     *)
(* concurrent specification splits vote_report at the point where its      *)
(* SELECT has returned and its write has not yet been issued.              *)
(*                                                                         *)
(* Each router has its own specification over its own tables; the tables   *)
(* of the other routers stay in their initial state.                       *)
(***************************************************************************)
EXTENDS Bags, FiniteSets, Integers, Sequences, TLC

VARIABLES votes, last, prev, req,
          images, nextImageID, reports, imgLast,
          period_results, growth_data,
          search_table, search_last, search_scan,
          categories, nextCategoryID, catLast,
          locations, nextLocationID, locLast,
          users, user_info, nextUserID, authLast,
          connReq, connections, cursors,
          trend_reports, trendLast,
          userReq, reportLast, nextReportID, files

vars == <<votes, last, prev, req, images, nextImageID, reports, imgLast,
          period_results, growth_data,
          search_table, search_last, search_scan,
          categories, nextCategoryID, catLast,
          locations, nextLocationID, locLast,
          users, user_info, nextUserID, authLast,
          connReq, connections, cursors,
          trend_reports, trendLast,
          userReq, reportLast, nextReportID, files>>

voteVars == <<votes, last, prev, req>>
imageVars == <<images, nextImageID, reports, imgLast>>
growthVars == <<period_results, growth_data>>
searchVars == <<search_table, search_last, search_scan>>
categoryVars == <<categories, nextCategoryID, catLast>>
locationVars == <<locations, nextLocationID, locLast>>
authVars == <<users, user_info, nextUserID, authLast>>
connVars == <<connReq, connections, cursors>>
trendVars == <<trend_reports, trendLast>>
handlerVars == <<userReq, reportLast, nextReportID, files>>
resourceVars == <<searchVars, categoryVars, locationVars, authVars, connVars,
                  trendVars, handlerVars>>

----------------------------------------------------------------------------
(* Bounds *)

MaxReports == 2
MaxVotedReports == 1
MaxUsers == 2
MaxRequests == 3
MaxCategories == 2
MaxImages == 3
MaxTime == 1
MaxBuckets == 2
MaxCount == 15

ReportIDs == 1..MaxReports
VotedReports == 1..MaxVotedReports
UserIDs == 1..MaxUsers
Procs == 1..MaxRequests
CategoryIDs == 1..MaxCategories
Timestamps == 1..MaxTime

----------------------------------------------------------------------------
(* votes table: routes/vote.py *)

VoteTypes == {"upvote", "downvote"}

NoVote == "none"

Opposite(X) == IF X = "upvote" THEN "downvote" ELSE "upvote"

VoteRow(r, u, X) == [reportID |-> r, userID |-> u, voteType |-> X]

\* rows of the table v matched by  WHERE reportID = r AND userID = u
PairRows(v, r, u) == {row \in BagToSet(v) : row.reportID = r /\ row.userID = u}

\* number of rows (with multiplicity) of the pair (r, u)
PairCount(v, r, u) ==
    BagCardinality([row \in PairRows(v, r, u) |-> v[row]])

\* SELECT voteType FROM votes WHERE reportID = r AND userID = u; fetchone():
\* None when no row matches, otherwise the first row the server returns
\* (there is no ORDER BY, so any matching row can be the first).
SelectVote(v, r, u) ==
    IF PairRows(v, r, u) = {} THEN {NoVote}
    ELSE {row.voteType : row \in PairRows(v, r, u)}

\* mutant: the DELETE of the toggle branch is never committed
DeleteVotes_keeps(v, r, u) == v

\* mutant: the WHERE clause lacks "AND userID = %s"
DeleteVotes_allusers(v, r, u) ==
    [row \in {x \in BagToSet(v) : x.reportID # r} |-> v[row]]

\* DELETE FROM votes WHERE reportID = r AND userID = u
DeleteVotes(v, r, u) ==
    [row \in BagToSet(v) \ PairRows(v, r, u) |-> v[row]]

\* mutant: the opposite vote is added next to the old row instead of replacing it
UpdateVotes_adds(v, r, u, X) == v (+) SetToBag({VoteRow(r, u, X)})

\* UPDATE votes SET voteType = X WHERE reportID = r AND userID = u
UpdateVotes(v, r, u, X) ==
    IF PairRows(v, r, u) = {} THEN v
    ELSE DeleteVotes(v, r, u) (+) [row \in {VoteRow(r, u, X)} |-> PairCount(v, r, u)]

\* mutant: the INSERT is issued twice
InsertVote_twice(v, r, u, X) ==
    v (+) SetToBag({VoteRow(r, u, X)}) (+) SetToBag({VoteRow(r, u, X)})

\* INSERT INTO votes (reportID, userID, voteType) VALUES (r, u, X)
InsertVote(v, r, u, X) == v (+) SetToBag({VoteRow(r, u, X)})

\* mutant: no look at existing_vote, every request inserts a row
ApplyVote_insert(v, existing, r, u, X) == InsertVote(v, r, u, X)

\* mutant: a repeated vote of the same type is kept, not toggled off
ApplyVote_notoggle(v, existing, r, u, X) ==
    IF existing # NoVote
    THEN UpdateVotes(v, r, u, X)
    ELSE InsertVote(v, r, u, X)

\* the write vote_report issues once existing_vote is known
ApplyVote(v, existing, r, u, X) ==
    IF existing # NoVote
    THEN IF existing = X
         THEN DeleteVotes(v, r, u)
         ELSE UpdateVotes(v, r, u, X)
    ELSE InsertVote(v, r, u, X)

\* get_report_votes: the two COUNT(*) queries
GetReportVotes(v, r) ==
    [upvotes   |-> BagCardinality([row \in {x \in BagToSet(v) :
                        x.reportID = r /\ x.voteType = "upvote"} |-> v[row]]),
     downvotes |-> BagCardinality([row \in {x \in BagToSet(v) :
                        x.reportID = r /\ x.voteType = "downvote"} |-> v[row]])]

\* userVote of get_report_votes for a table with at most one row per pair
UserVote(v, r, u) == CHOOSE t \in SelectVote(v, r, u) : TRUE

NoRequest == [op |-> "none"]

\* the record of a completed request: its arguments, its status and the
\* votes table it started from
Done(op, r, u, X, status, before) ==
    [op |-> op, report |-> r, user |-> u, type |-> X, status |-> status,
     before |-> before]

\* the record rec when it is a request of user u on report r, else none
SamePair(rec, r, u) ==
    IF rec.op = "none" THEN NoRequest
    ELSE IF rec.report = r /\ rec.user = u THEN rec ELSE NoRequest

\* fetchone() on the unbuffered cursor leaves rows unread when more than one
\* row matched; the connector may then refuse the next execute() with
\* "Unread result found", which the handler turns into a 500.
UnreadResult(v, r, u) == PairCount(v, r, u) > 1

\* POST /api/vote/{report_id}, executed without interleaving
vote_report(r, u, X) ==
    /\ \/ /\ \E existing \in SelectVote(votes, r, u) :
                votes' = ApplyVote(votes, existing, r, u, X)
          /\ last' = Done("vote_report", r, u, X, 200, votes)
       \/ /\ UnreadResult(votes, r, u)
          /\ votes' = votes
          /\ last' = Done("vote_report", r, u, X, 500, votes)
    /\ prev' = SamePair(last, r, u)
    /\ UNCHANGED <<req, imageVars, growthVars, resourceVars>>

\* DELETE /api/vote/{report_id}: the HTTPException(404) raised when no row
\* was deleted is caught by the handler's own "except Exception" and
\* re-raised with status 500; nothing is committed on that path.
remove_vote(r, u) ==
    /\ IF PairRows(votes, r, u) = {}
       THEN /\ votes' = votes
            /\ last' = Done("remove_vote", r, u, NoVote, 500, votes)
       ELSE /\ votes' = DeleteVotes(votes, r, u)
            /\ last' = Done("remove_vote", r, u, NoVote, 200, votes)
    /\ prev' = SamePair(last, r, u)
    /\ UNCHANGED <<req, imageVars, growthVars, resourceVars>>

\* GET /api/vote/{report_id}
get_report_votes(r, u) ==
    /\ last' = [op |-> "get_report_votes", report |-> r, user |-> u,
                status |-> 200, before |-> votes,
                upvotes |-> GetReportVotes(votes, r).upvotes,
                downvotes |-> GetReportVotes(votes, r).downvotes,
                userVote |-> UserVote(votes, r, u)]
    /\ prev' = SamePair(last, r, u)
    /\ UNCHANGED <<votes, req, imageVars, growthVars, resourceVars>>

IdleReq == [pc |-> "idle"]

\* the tables and responses of the other routers, before their first request
IdleSearch ==
    /\ search_table = << >>
    /\ search_last = NoRequest
    /\ search_scan = NoRequest

IdleCategory ==
    /\ categories = << >>
    /\ nextCategoryID = 1
    /\ catLast = NoRequest

IdleLocation ==
    /\ locations = << >>
    /\ nextLocationID = 1
    /\ locLast = NoRequest

IdleAuth ==
    /\ users = << >>
    /\ user_info = << >>
    /\ nextUserID = 1
    /\ authLast = NoRequest

IdleConn ==
    /\ connReq = IdleReq
    /\ connections = {}
    /\ cursors = {}

IdleTrend ==
    /\ trend_reports = << >>
    /\ trendLast = NoRequest

IdleHandlers ==
    /\ userReq = << >>
    /\ reportLast = NoRequest
    /\ nextReportID = 1
    /\ files = {}

InitResources ==
    /\ IdleHandlers
    /\ IdleSearch
    /\ IdleCategory
    /\ IdleLocation
    /\ IdleAuth
    /\ IdleConn
    /\ IdleTrend

InitVotes ==
    /\ votes = EmptyBag
    /\ last = NoRequest
    /\ prev = NoRequest
    /\ req = [p \in Procs |-> IdleReq]

InitOther ==
    /\ images = {}
    /\ nextImageID = 1
    /\ reports = << >>
    /\ imgLast = NoRequest
    /\ period_results = << >>
    /\ growth_data = << >>

Init ==
    /\ InitVotes
    /\ InitOther
    /\ InitResources

Next ==
    \/ \E r \in VotedReports, u \in UserIDs, X \in VoteTypes : vote_report(r, u, X)
    \/ \E r \in VotedReports, u \in UserIDs : remove_vote(r, u)
    \/ \E r \in VotedReports, u \in UserIDs : get_report_votes(r, u)

Spec == Init /\ [][Next]_vars

----------------------------------------------------------------------------
(* The vote toggle, requests executed one after another (Spec) *)

\* the state of the pair (r, u) in a table with at most one row per pair
PairState(v, r, u) ==
    IF PairRows(v, r, u) = {} THEN NoVote
    ELSE (CHOOSE row \in PairRows(v, r, u) : TRUE).voteType

VoteCount(v, r) == GetReportVotes(v, r).upvotes + GetReportVotes(v, r).downvotes

LastVoted == last.op = "vote_report" /\ last.status = 200

\* C1: vote_report(r, u, X) on a pair without a vote row inserts exactly one
\* row (r, u, X): the pair has one row, of type X, and the table has one row
\* more than before.
C1_InsertFromNoVote ==
    (LastVoted /\ PairCount(last.before, last.report, last.user) = 0) =>
        /\ PairCount(votes, last.report, last.user) = 1
        /\ CopiesIn(VoteRow(last.report, last.user, last.type), votes) = 1
        /\ votes = last.before (+) SetToBag({VoteRow(last.report, last.user, last.type)})

C1_Witness ==
    /\ LastVoted
    /\ PairCount(last.before, last.report, last.user) = 0
    /\ last.type = "downvote"
    /\ PairState(votes, last.report, last.user) = "downvote"

C3_SwitchType ==
    (LastVoted /\ PairCount(last.before, last.report, last.user) = 1
               /\ PairState(last.before, last.report, last.user) = Opposite(last.type)) =>
        /\ PairCount(votes, last.report, last.user) = 1
        /\ PairState(votes, last.report, last.user) = last.type
        /\ BagCardinality(votes) = BagCardinality(last.before)

C3_Witness ==
    /\ LastVoted
    /\ PairState(last.before, last.report, last.user) = Opposite(last.type)
    /\ PairState(votes, last.report, last.user) = last.type

\* C4: after any sequence of vote_report and remove_vote requests executed
\* one after another, every (report, user) pair has at most one vote row.
C4_AtMostOneVote ==
    \A r \in VotedReports, u \in UserIDs : PairCount(votes, r, u) <= 1

C4_Witness ==
    /\ prev.op = "remove_vote" /\ prev.status = 200
    /\ LastVoted
    /\ \A r \in VotedReports, u \in UserIDs : PairCount(votes, r, u) = 1

SameTwice ==
    /\ prev.op = "vote_report" /\ prev.status = 200
    /\ LastVoted
    /\ prev.report = last.report /\ prev.user = last.user /\ prev.type = last.type

OtherRows(v, r, u) ==
    [row \in {x \in BagToSet(v) : x.reportID # r \/ x.userID # u} |-> v[row]]

----------------------------------------------------------------------------
(* vote_report requests running concurrently (SpecConc): each request is   *)
(* its own connection; its SELECT and its later write are separate steps.  *)

\* lines 38-43 of vote_report: the SELECT and fetchone()
vote_select(p, r, u, X) ==
    /\ req[p].pc = "idle"
    /\ \E existing \in SelectVote(votes, r, u) :
          req' = [req EXCEPT ![p] = [pc |-> "selected", report |-> r, user |-> u,
                                     type |-> X, existing |-> existing]]
    /\ UNCHANGED <<votes, last, prev, imageVars, growthVars, resourceVars>>

\* lines 45-68 of vote_report: the DELETE, UPDATE or INSERT and the commit
vote_write(p) ==
    /\ req[p].pc = "selected"
    /\ \/ /\ votes' = ApplyVote(votes, req[p].existing, req[p].report,
                                req[p].user, req[p].type)
          /\ req' = [req EXCEPT ![p] = [pc |-> "done", status |-> 200]]
       \/ /\ UnreadResult(votes, req[p].report, req[p].user)
          /\ req[p].existing # NoVote
          /\ votes' = votes
          /\ req' = [req EXCEPT ![p] = [pc |-> "done", status |-> 500]]
    /\ UNCHANGED <<last, prev, imageVars, growthVars, resourceVars>>

NextConc ==
    \/ \E p \in Procs, r \in VotedReports, u \in UserIDs, X \in VoteTypes :
          vote_select(p, r, u, X)
    \/ \E p \in Procs : vote_write(p)

SpecConc == Init /\ [][NextConc]_vars

\* C5: a user holds at most one vote row per report in every reachable state
\* when vote_report requests for the same pair run concurrently.
C5_AtMostOneVoteConcurrent ==
    \A r \in VotedReports, u \in UserIDs : PairCount(votes, r, u) <= 1

----------------------------------------------------------------------------
(* images table: routes/image.py, utils/image_helpers.py.  A URL is the     *)
(* sequence of its characters.                                             *)

\* "http://localhost:8000/backend/uploads/"
UploadPrefix ==
    <<"h", "t", "t", "p", ":", "/", "/", "l", "o", "c", "a", "l", "h", "o", "s", "t", ":", "8", "0", "0", "0", "/",
       "b", "a", "c", "k", "e", "n", "d", "/", "u", "p", "l", "o", "a", "d", "s", "/">>

\* file names a client sends, after secure_filename and splitext
UploadNames == {<<"p", "i", "c">>,
                <<"d", "e", "f", "a", "u", "l", "t", "s">>}

UploadExt == <<".", "p", "n", "g">>

\* a placeholder file of setup_default_images.py: "default_traffic.jpg"
DefaultFile ==
    <<"d", "e", "f", "a", "u", "l", "t", "_", "t", "r", "a", "f", "f", "i", "c", ".", "j", "p", "g">>

\* the pattern of the image queries: '%default_%'
DefaultPattern == <<"%", "d", "e", "f", "a", "u", "l", "t", "_", "%">>

DecimalDigits == <<"0", "1", "2", "3", "4", "5", "6", "7", "8", "9">>

\* str(n) of a non-negative integer
RECURSIVE Str(_)
Str(n) == IF n < 10 THEN <<DecimalDigits[n + 1]>>
          ELSE Str(n \div 10) \o <<DecimalDigits[(n % 10) + 1]>>

\* upload_image: f"report_{report_id}_{name}_{timestamp}{ext}"
UniqueFilename(report_id, name, timestamp, ext) ==
    <<"r", "e", "p", "o", "r", "t", "_">> \o Str(report_id) \o <<"_">> \o name
        \o <<"_">> \o Str(timestamp) \o ext

\* upload_image: f"http://localhost:8000/backend/uploads/{unique_filename}"
DbFilepath(unique_filename) == UploadPrefix \o unique_filename

\* MySQL's  s LIKE p : '%' matches any run of characters, '_' matches any
\* single character, every other character matches itself (the model's
\* URLs are lower case, so the collation's case folding plays no part).
RECURSIVE Like(_, _)
Like(s, p) ==
    IF p = << >> THEN s = << >>
    ELSE IF Head(p) = "%"
         THEN Like(s, Tail(p)) \/ (s # << >> /\ Like(Tail(s), p))
    ELSE /\ s # << >>
         /\ (Head(p) = "_" \/ Head(p) = Head(s))
         /\ Like(Tail(s), Tail(p))

ImageRow(id, url, r) == [imageID |-> id, imageURL |-> url, reportID |-> r]

\* SELECT * FROM images WHERE reportID = r AND imageURL NOT LIKE '%default_%'
UserImages(imgs, r) ==
    {i \in imgs : i.reportID = r /\ ~Like(i.imageURL, DefaultPattern)}

\* SELECT i.* FROM images i WHERE i.reportID = r AND imageURL LIKE '%default_%'
DefaultImages(imgs, r) ==
    {i \in imgs : i.reportID = r /\ Like(i.imageURL, DefaultPattern)}

\* SELECT i.* FROM images i JOIN reports r ON i.reportID = r.reportID
\* WHERE i.imageURL LIKE '%default_%' AND r.categoryID =
\*   (SELECT categoryID FROM reports WHERE reportID = rid)     [before LIMIT]
CategoryImages(imgs, reps, rid) ==
    {i \in imgs : /\ Like(i.imageURL, DefaultPattern)
                  /\ i.reportID \in DOMAIN reps
                  /\ rid \in DOMAIN reps
                  /\ reps[i.reportID].categoryID = reps[rid].categoryID}

\* SELECT i.* FROM images i WHERE i.imageURL LIKE '%default_%'  [before LIMIT]
FallbackImages(imgs) == {i \in imgs : Like(i.imageURL, DefaultPattern)}

\* LIMIT 1 without ORDER BY: the lists fetchall() can return
LimitOne(rows) == IF rows = {} THEN {{}} ELSE {{i} : i \in rows}

ImagesOutcome(status, tier, result) ==
    [status |-> status, tier |-> tier, result |-> result]

\* get_images_for_report: the outcomes of one call, each with the return
\* statement (tier) that produced it
GetImagesForReport(imgs, reps, report_id) ==
    IF UserImages(imgs, report_id) # {}
    THEN {ImagesOutcome(200, 1, UserImages(imgs, report_id))}
    ELSE IF DefaultImages(imgs, report_id) # {}
    THEN {ImagesOutcome(200, 2, DefaultImages(imgs, report_id))}
    ELSE IF CategoryImages(imgs, reps, report_id) # {}
    THEN {ImagesOutcome(200, 3, l) : l \in LimitOne(CategoryImages(imgs, reps, report_id))}
    ELSE {ImagesOutcome(200, 4, l) : l \in LimitOne(FallbackImages(imgs))}

\* GET /api/image/{report_id}
get_report_images(report_id) ==
    /\ \E o \in GetImagesForReport(images, reports, report_id) :
          imgLast' = [op |-> "get_report_images", report |-> report_id,
                      status |-> o.status, tier |-> o.tier, result |-> o.result]
    /\ UNCHANGED <<images, nextImageID, reports, voteVars, growthVars, resourceVars>>

\* INSERT INTO images (imageURL, reportID) VALUES (url, r); the row's report
\* must exist (foreign key)
InsertImage(url, r) ==
    /\ r \in DOMAIN reports
    /\ nextImageID <= MaxImages
    /\ images' = images \cup {ImageRow(nextImageID, url, r)}
    /\ nextImageID' = nextImageID + 1

\* what the image handlers leave alone besides the images table
imgOther == <<reports, voteVars, growthVars, searchVars, categoryVars,
              locationVars, authVars, connVars, trendVars, userReq, reportLast,
              nextReportID>>

\* with open(filepath, "wb") as f: f.write(contents) -- creates the file or
\* replaces the file of that name
WriteFile(folder, unique_filename) == folder \cup {unique_filename}

\* POST /api/image/{report_id}: the upload of a file named name + ext at
\* time timestamp; the file is written before the INSERT, and a failed
\* INSERT is answered with 500
upload_image(report_id, name, timestamp) ==
    /\ nextImageID <= MaxImages
    /\ files' = WriteFile(files, UniqueFilename(report_id, name, timestamp,
                                                UploadExt))
    /\ IF report_id \in DOMAIN reports
       THEN /\ InsertImage(DbFilepath(UniqueFilename(report_id, name, timestamp,
                                                     UploadExt)), report_id)
            /\ imgLast' = [op |-> "upload_image", report |-> report_id,
                           status |-> 201, id |-> nextImageID]
       ELSE /\ UNCHANGED <<images, nextImageID>>
            /\ imgLast' = [op |-> "upload_image", report |-> report_id,
                           status |-> 500]
    /\ UNCHANGED imgOther

\* a placeholder row of the seed script that init_database executes
seed_default_image(report_id) ==
    /\ InsertImage(UploadPrefix \o DefaultFile, report_id)
    /\ imgLast' = NoRequest
    /\ UNCHANGED <<reports, voteVars, growthVars, resourceVars>>

ReportRow(c) == [categoryID |-> c]

\* the reports tables: any subset of the report ids, each with a category
ReportTables ==
    UNION {[D -> {ReportRow(c) : c \in CategoryIDs}] : D \in SUBSET ReportIDs}

InitImages ==
    /\ votes = EmptyBag
    /\ last = NoRequest
    /\ prev = NoRequest
    /\ req = [p \in Procs |-> IdleReq]
    /\ images = {}
    /\ nextImageID = 1
    /\ reports \in ReportTables
    /\ imgLast = NoRequest
    /\ period_results = << >>
    /\ growth_data = << >>
    /\ InitResources

NextImages ==
    \/ \E r \in ReportIDs : get_report_images(r)
    \/ \E r \in ReportIDs, n \in UploadNames, t \in Timestamps : upload_image(r, n, t)
    \/ \E r \in ReportIDs : seed_default_image(r)

SpecImages == InitImages /\ [][NextImages]_vars

----------------------------------------------------------------------------
(* Image fallback resolution (SpecImages) *)

\* the placeholder label "default_"
DefaultLabel == <<"d", "e", "f", "a", "u", "l", "t", "_">>

\* the URL carries the "default_" label
HasDefaultLabel(url) ==
    \E k \in 1..Len(url) :
        /\ k + Len(DefaultLabel) - 1 <= Len(url)
        /\ SubSeq(url, k, k + Len(DefaultLabel) - 1) = DefaultLabel

LastImages == imgLast.op = "get_report_images"

\* the four tiers of the chain, for the report of the last call
UserTier == {i \in images : i.reportID = imgLast.report /\ ~HasDefaultLabel(i.imageURL)}
ReportDefaultTier ==
    {i \in images : i.reportID = imgLast.report /\ HasDefaultLabel(i.imageURL)}
CategoryDefaultTier ==
    {i \in images : /\ HasDefaultLabel(i.imageURL)
                    /\ imgLast.report \in DOMAIN reports
                    /\ i.reportID \in DOMAIN reports
                    /\ reports[i.reportID].categoryID = reports[imgLast.report].categoryID}
AnyDefaultTier == {i \in images : HasDefaultLabel(i.imageURL)}

\* C7: get_images_for_report returns the first non-empty list of the chain
\* user-uploaded images, default images of the report, a default image of a
\* report of the same category, any default image; a lower tier is reached
\* only when every higher tier is empty.
C7_Claimed ==
    LastImages =>
        IF UserTier # {} THEN imgLast.result = UserTier
        ELSE IF ReportDefaultTier # {} THEN imgLast.result = ReportDefaultTier
        ELSE IF CategoryDefaultTier # {}
             THEN \E i \in CategoryDefaultTier : imgLast.result = {i}
        ELSE IF AnyDefaultTier # {}
             THEN \E i \in AnyDefaultTier : imgLast.result = {i}
        ELSE imgLast.result = {}

\* C8: an image is a placeholder exactly when its URL carries the "default_"
\* label: a report with only default-labelled images never gets them through
\* the user-image tier, and a report with at least one user-uploaded image
\* gets back exactly its user-uploaded images.
C8_Claimed ==
    LastImages =>
        /\ (UserTier = {} /\ ReportDefaultTier # {}) => imgLast.tier # 1
        /\ UserTier # {} => imgLast.result = UserTier

\* C9: with no image linked to the report and no default image at all, the
\* call returns an empty list and no error.
C9_Claimed ==
    (LastImages /\ UserTier = {} /\ ReportDefaultTier = {} /\ AnyDefaultTier = {}) =>
        imgLast.status = 200 /\ imgLast.result = {}

----------------------------------------------------------------------------
(* Growth rate of get_system_performance: analytics/system_analytics.py    *)

Periods == {"daily", "weekly", "monthly", "quarterly", "yearly"}

\* a quotient num / den of Python's true division, kept exact
Rat(num, den) == [num |-> num, den |-> den]

RatEq(a, b) == a.num * b.den = b.num * a.den

\* the rows of the growth query: one per period bucket, in period order
PeriodRow(i, c) == [time_period |-> i, count |-> c]

\* mutant: the guard "if i > 0" is missing and the first bucket reads
\* period_results[-1], the last row
PrevCount_wraps(results, i) ==
    IF i > 1 THEN results[i - 1].count ELSE results[Len(results)].count

\* prev_count = period_results[i-1]['count'] if i > 0 else 0   (i from 1 here)
PrevCount(results, i) == IF i > 1 THEN results[i - 1].count ELSE 0

\* growth_percent of one bucket
GrowthPercent(current_count, prev_count) ==
    IF prev_count > 0
    THEN Rat((current_count - prev_count) * 100, prev_count)
    ELSE IF current_count > 0 THEN Rat(100, 1) ELSE Rat(0, 1)

\* the loop that builds growth_data from period_results
GrowthData(results) ==
    [i \in 1..Len(results) |->
        [period |-> results[i].time_period,
         count |-> results[i].count,
         prev_period_count |-> PrevCount(results, i),
         growth_percent |-> GrowthPercent(results[i].count, PrevCount(results, i))]]

\* number of generated periods when the query returned no row
FallbackPeriods(period) ==
    CASE period = "daily" -> 30
      [] period = "weekly" -> 12
      [] period = "monthly" -> 12
      [] period = "quarterly" -> 8
      [] OTHER -> 5

\* the generated entries: the first grows by 5 from 100, the others by
\* random.uniform(-2, 10), whose value is not tracked
MockGrowthData(period) ==
    [i \in 1..FallbackPeriods(period) |->
        IF i = 1
        THEN [period |-> i, count |-> 105, prev_period_count |-> 100,
              growth_percent |-> Rat(5, 1), mock |-> TRUE]
        ELSE [period |-> i, mock |-> TRUE]]

\* the growth section of GET /api/analytics/system-performance
get_system_performance(period) ==
    /\ growth_data = << >>
    /\ growth_data' = IF period_results # << >>
                      THEN GrowthData(period_results)
                      ELSE MockGrowthData(period)
    /\ UNCHANGED <<period_results, voteVars, imageVars, resourceVars>>

\* the results the growth query can return: up to MaxBuckets buckets
PeriodResults ==
    UNION {[1..n -> 0..MaxCount] : n \in 0..MaxBuckets}

InitGrowth ==
    /\ votes = EmptyBag
    /\ last = NoRequest
    /\ prev = NoRequest
    /\ req = [p \in Procs |-> IdleReq]
    /\ images = {}
    /\ nextImageID = 1
    /\ reports = << >>
    /\ imgLast = NoRequest
    /\ \E counts \in PeriodResults :
          period_results = [i \in 1..Len(counts) |-> PeriodRow(i, counts[i])]
    /\ growth_data = << >>
    /\ InitResources

NextGrowth == \E period \in Periods : get_system_performance(period)

SpecGrowth == InitGrowth /\ [][NextGrowth]_vars

Computed == growth_data # << >> /\ period_results # << >>

\* the counts of the buckets, in order
Counts == [i \in 1..Len(period_results) |-> period_results[i].count]

\* C10: each entry's growth_percent is (count - previous) / previous * 100
\* when previous > 0, else 100 if count > 0, else 0, with previous the count
\* of the preceding bucket (0 for the first); [10,15] gives 50, [10,0] gives
\* -100 and [0,10] gives 100.
C10_GrowthPercent ==
    Computed =>
        /\ Len(growth_data) = Len(period_results)
        /\ \A i \in 1..Len(period_results) :
              LET count == period_results[i].count
                  previous == IF i = 1 THEN 0 ELSE period_results[i - 1].count
                  g == growth_data[i].growth_percent
              IN  /\ g.den > 0
                  /\ IF previous > 0
                     THEN g.num * previous = (count - previous) * 100 * g.den
                     ELSE IF count > 0 THEN g.num = 100 * g.den
                     ELSE g.num = 0
        /\ Counts = <<10, 15>> => RatEq(growth_data[2].growth_percent, Rat(50, 1))
        /\ Counts = <<10, 0>> => RatEq(growth_data[2].growth_percent, Rat(-100, 1))
        /\ Counts = <<0, 10>> => RatEq(growth_data[2].growth_percent, Rat(100, 1))

C10_Witness ==
    /\ Computed
    /\ Counts = <<10, 15>>
    /\ growth_data[1].growth_percent = Rat(100, 1)
    /\ growth_data[2].prev_period_count = 10
    /\ RatEq(growth_data[2].growth_percent, Rat(50, 1))

----------------------------------------------------------------------------
(* routes/report.py: search_reports                                        *)
(*                                                                         *)
(* A row of the joined query is a report with its createdAt, its category  *)
(* and the number of its upvote rows.  The request carries the category    *)
(* filter; query, location, dateFrom and dateTo are left unset.            *)
(* ORDER BY leaves the order of rows with equal sort keys to the server,   *)
(* which may choose differently for every statement.                       *)

MaxSearchReports == 2
MaxUpvotes == 1
MaxLimit == 3
MaxPage == 2

SearchIDs == 1..MaxSearchReports
Limits == 1..MaxLimit
Pages == 1..MaxPage
\* a filter the request does not set (None)
NoFilter == -1
SortOrders == {"createdAt_desc", "createdAt_asc", "upvotes_desc", "upvotes_asc"}

SearchRow(t, c, up) == [createdAt |-> t, categoryID |-> c, upvotes |-> up]

\* WHERE clause built from the filters that are set
Matches(row, category) ==
    category = NoFilter \/ row.categoryID = category

\* the rows the COUNT(DISTINCT r.reportID) query counts
Filtered(table, category) ==
    {r \in DOMAIN table : Matches(table[r], category)}

TotalPages_floor(total_records, limit) ==
    IF total_records > 0 THEN total_records \div limit ELSE 1

\* math.ceil(total_records / limit) if total_records > 0 else 1
TotalPages(total_records, limit) ==
    IF total_records > 0 THEN (total_records + limit - 1) \div limit ELSE 1

\* a must come before b under the ORDER BY clause chosen by sortBy
Before(table, sortBy, a, b) ==
    CASE sortBy = "createdAt_asc" ->
            table[a].createdAt < table[b].createdAt
      [] sortBy = "upvotes_desc" ->
            \/ table[a].upvotes > table[b].upvotes
            \/ /\ table[a].upvotes = table[b].upvotes
               /\ table[a].createdAt > table[b].createdAt
      [] sortBy = "upvotes_asc" ->
            \/ table[a].upvotes < table[b].upvotes
            \/ /\ table[a].upvotes = table[b].upvotes
               /\ table[a].createdAt < table[b].createdAt
      [] OTHER ->
            table[a].createdAt > table[b].createdAt

\* every order of the rows S the server may produce for the ORDER BY clause
OrderBy(table, S, sortBy) ==
    {o \in [1..Cardinality(S) -> S] :
        /\ \A i, j \in DOMAIN o : i # j => o[i] # o[j]
        /\ \A i, j \in DOMAIN o : i < j => ~Before(table, sortBy, o[j], o[i])}

\* LIMIT limit OFFSET offset
LimitOffset(o, limit, offset) ==
    [i \in 1..(IF Len(o) - offset < 0 THEN 0
               ELSE IF Len(o) - offset < limit THEN Len(o) - offset
               ELSE limit) |-> o[offset + i]]

NoScan == [op |-> "scan", params |-> << >>, pages |-> << >>]

\* the pages a client has fetched in sequence, 1, 2, ..., with one set of
\* parameters; NoRequest when the sequence is not recorded
Scan(scan, params, page, reports_data) ==
    IF scan.op = "none" THEN scan
    ELSE IF page = 1
         THEN [op |-> "scan", params |-> params, pages |-> <<reports_data>>]
    ELSE IF scan.params = params /\ page = Len(scan.pages) + 1
         THEN [scan EXCEPT !.pages = Append(@, reports_data)]
    ELSE NoScan

search_reports(category, page, limit, sortBy) ==
    LET matching == Filtered(search_table, category)
        total_records == Cardinality(matching)
        total_pages == TotalPages(total_records, limit)
        offset == (page - 1) * limit
    IN  \E o \in OrderBy(search_table, matching, sortBy) :
          LET reports_data == LimitOffset(o, limit, offset)
          IN  /\ search_last' = [op |-> "search_reports",
                                 category |-> category,
                                 limit |-> limit, sortBy |-> sortBy,
                                 reports |-> reports_data,
                                 totalPages |-> total_pages,
                                 currentPage |-> page,
                                 totalReports |-> total_records]
              /\ search_scan' = Scan(search_scan,
                                     <<category, limit, sortBy>>,
                                     page, reports_data)
              /\ UNCHANGED <<search_table, voteVars, imageVars, growthVars,
                             categoryVars, locationVars, authVars, connVars,
                             trendVars, handlerVars>>

\* report tables: reports 1..n, any createdAt, category and upvote count
SearchTables ==
    UNION {[1..n -> {SearchRow(t, c, up) : t \in Timestamps, c \in CategoryIDs,
                                           up \in 0..MaxUpvotes}] :
           n \in 0..MaxSearchReports}

\* report tables whose reports were created one after the other and have no
\* votes yet
FreshTables ==
    UNION {{[r \in 1..n |-> SearchRow(r - 1, cs[r], 0)] : cs \in [1..n -> CategoryIDs]} :
           n \in 0..MaxSearchReports}

InitSearchOther ==
    /\ IdleHandlers
    /\ InitVotes
    /\ InitOther
    /\ IdleCategory
    /\ IdleLocation
    /\ IdleAuth
    /\ IdleConn
    /\ IdleTrend

InitSearch ==
    /\ search_table \in FreshTables
    /\ search_last = NoRequest
    /\ search_scan = NoRequest
    /\ InitSearchOther

NextSearch ==
    \E category \in CategoryIDs \cup {NoFilter},
       page \in Pages, limit \in Limits, sortBy \in SortOrders :
        search_reports(category, page, limit, sortBy)

SpecSearch == InitSearch /\ [][NextSearch]_vars

InitScan ==
    /\ search_table \in SearchTables
    /\ search_last = NoRequest
    /\ search_scan = NoScan
    /\ InitSearchOther

SpecScan == InitScan /\ [][NextSearch]_vars

(* Claims about search_reports *)

\* the least n with n * b >= a
CeilDiv(a, b) ==
    CHOOSE n \in 0..a : n * b >= a /\ \A m \in 0..a : m * b >= a => n <= m

Searched == search_last.op = "search_reports"

\* C11 as stated: search_reports returns totalPages = ceil(totalReports /
\* limit) for every filter result and every limit, a filter that matches no
\* report included.
C11_Claimed ==
    Searched =>
        search_last.totalPages = CeilDiv(search_last.totalReports, search_last.limit)

\* C11 amended: totalReports is the number of reports that match the
\* filters; totalPages is ceil(totalReports / limit) when at least one report
\* matches, and 1 when none matches.
C11_TotalPages ==
    Searched =>
        /\ search_last.totalReports =
             Cardinality({r \in DOMAIN search_table :
                 search_last.category \in {NoFilter, search_table[r].categoryID}})
        /\ search_last.totalReports > 0 =>
             search_last.totalPages =
                 CeilDiv(search_last.totalReports, search_last.limit)
        /\ search_last.totalReports = 0 => search_last.totalPages = 1

C11_Witness ==
    /\ Searched
    /\ search_last.totalReports = 0
    /\ search_last.totalPages = 1
    /\ search_last.reports = << >>

RECURSIVE Concat(_)
Concat(pages) ==
    IF pages = << >> THEN << >> ELSE Head(pages) \o Concat(Tail(pages))

\* the request that was answered last belongs to a recorded page sequence
Scanning == Searched /\ search_scan.op = "scan" /\ search_scan.pages # << >>

\* C12 as stated: for a fixed database state there is one ordering of the
\* matching reports by sortBy such that page N with limit L is its positions
\* [(N-1)*L, N*L); the pages 1..totalPages together contain every matching
\* report exactly once.
C12_Claimed ==
    Scanning =>
        LET matching == {r \in DOMAIN search_table :
                            search_last.category \in {NoFilter, search_table[r].categoryID}}
            L == search_last.limit
            pages == search_scan.pages
            all == Concat(pages)
        IN  /\ \E o \in [1..Cardinality(matching) -> matching] :
                 /\ \A i, j \in DOMAIN o : i # j => o[i] # o[j]
                 /\ \A i, j \in DOMAIN o :
                        i < j => ~Before(search_table, search_last.sortBy, o[j], o[i])
                 /\ \A N \in DOMAIN pages :
                      /\ \A k \in DOMAIN pages[N] : pages[N][k] = o[(N - 1) * L + k]
                      /\ Len(pages[N]) = IF Len(o) >= N * L THEN L
                                         ELSE IF Len(o) > (N - 1) * L
                                              THEN Len(o) - (N - 1) * L
                                         ELSE 0
            /\ Len(pages) = search_last.totalPages =>
                 \A r \in matching : Cardinality({k \in DOMAIN all : all[k] = r}) = 1

----------------------------------------------------------------------------
(* routes/category.py: get_category, create_category, update_category,     *)
(* delete_category                                                         *)
(*                                                                         *)
(* The categories table maps categoryID to (categoryName,                  *)
(* categoryDescription); categoryName is UNIQUE.  Every handler wraps its  *)
(* body in try / except Exception, and HTTPException is an Exception: a    *)
(* status raised inside the try block reaches the client as 500.           *)

\* Depends(get_token_user) of the create, update and delete handlers: the
\* API is public, the dependency admits every request and the handlers do not
\* read the user it yields
get_token_user == TRUE

CategoryNames == {"Pothole", "Garbage"}
CategoryDescriptions == {"short", "long"}
\* a field the request body leaves out
None == "None"

CategoryRow(name, description) ==
    [categoryName |-> name, categoryDescription |-> description]

\* cursor.lastrowid of an INSERT into an AUTO_INCREMENT table
LastRowID(next_id) == next_id

\* the status the client sees for an HTTPException raised inside try
RaisedInTry(status_code) == 500

NameTaken(table, name, except_id) ==
    \E c \in DOMAIN table : c # except_id /\ table[c].categoryName = name

CatDone(op, category_id, name, description, status, body, before) ==
    [op |-> op, category_id |-> category_id, name |-> name,
     description |-> description, status |-> status, body |-> body,
     before |-> before]

catOther == <<voteVars, imageVars, growthVars, searchVars, locationVars,
              authVars, connVars, trendVars, handlerVars>>

get_category(category_id) ==
    /\ catLast' =
         IF category_id \in DOMAIN categories
         THEN CatDone("get_category", category_id, None, None, 200,
                      [categoryID |-> category_id,
                       categoryName |-> categories[category_id].categoryName,
                       categoryDescription |->
                           categories[category_id].categoryDescription],
                      categories)
         ELSE CatDone("get_category", category_id, None, None,
                      RaisedInTry(404), << >>, categories)
    /\ UNCHANGED <<categories, nextCategoryID, catOther>>

create_category(name, description) ==
    /\ get_token_user
    /\ nextCategoryID <= MaxCategories
    /\ IF NameTaken(categories, name, 0)
       THEN \* duplicate key: the INSERT raises, the id is used up
            /\ categories' = categories
            /\ catLast' = CatDone("create_category", 0, name, description,
                                  500, << >>, categories)
       ELSE /\ categories' =
                 [c \in DOMAIN categories \cup {nextCategoryID} |->
                    IF c = nextCategoryID THEN CategoryRow(name, description)
                    ELSE categories[c]]
            /\ catLast' = CatDone("create_category", LastRowID(nextCategoryID),
                                  name, description, 201,
                                  [id |-> LastRowID(nextCategoryID)], categories)
    /\ nextCategoryID' = nextCategoryID + 1
    /\ UNCHANGED catOther

\* existing[column] on the row a cursor without dictionary=True returns: the
\* row is a tuple, indexing it with a column name raises TypeError
TupleRow(row, column) == [value |-> None, raised |-> TRUE]

update_category(category_id, name, description) ==
    LET existing == categories[category_id]
        new_name == IF name # None THEN [value |-> name, raised |-> FALSE]
                    ELSE TupleRow(existing, "categoryName")
        new_desc == IF description # None
                    THEN [value |-> description, raised |-> FALSE]
                    ELSE TupleRow(existing, "categoryDescription")
    IN  /\ get_token_user
        /\ IF category_id \notin DOMAIN categories
           THEN /\ categories' = categories
                /\ catLast' = CatDone("update_category", category_id, name,
                                      description, RaisedInTry(404), << >>,
                                      categories)
           ELSE IF new_name.raised \/ new_desc.raised
                   \/ NameTaken(categories, new_name.value, category_id)
           THEN /\ categories' = categories
                /\ catLast' = CatDone("update_category", category_id, name,
                                      description, 500, << >>, categories)
           ELSE /\ categories' =
                     [categories EXCEPT ![category_id] =
                         CategoryRow(new_name.value, new_desc.value)]
                /\ catLast' = CatDone("update_category", category_id, name,
                                      description, 200, << >>, categories)
        /\ UNCHANGED <<nextCategoryID, catOther>>

delete_category(category_id) ==
    /\ get_token_user
    /\ IF category_id \in DOMAIN categories
       THEN /\ categories' = [c \in DOMAIN categories \ {category_id} |->
                                 categories[c]]
            /\ catLast' = CatDone("delete_category", category_id, None, None,
                                  200, << >>, categories)
       ELSE /\ categories' = categories
            /\ catLast' = CatDone("delete_category", category_id, None, None,
                                  RaisedInTry(404), << >>, categories)
    /\ UNCHANGED <<nextCategoryID, catOther>>

InitCategory ==
    /\ categories = << >>
    /\ nextCategoryID = 1
    /\ catLast = NoRequest
    /\ IdleHandlers
    /\ InitVotes
    /\ InitOther
    /\ IdleSearch
    /\ IdleLocation
    /\ IdleAuth
    /\ IdleConn
    /\ IdleTrend

NextCategory ==
    \/ \E c \in CategoryIDs : get_category(c)
    \/ \E n \in CategoryNames, d \in CategoryDescriptions : create_category(n, d)
    \/ \E c \in CategoryIDs, n \in CategoryNames \cup {None},
          d \in CategoryDescriptions \cup {None} : update_category(c, n, d)
    \/ \E c \in CategoryIDs : delete_category(c)

SpecCategory == InitCategory /\ [][NextCategory]_vars

(* Claims about the category handlers *)

\* C13 as stated: a request that addresses a category that does not exist,
\* or that was just deleted, is answered with status 404.
C13_Claimed ==
    (/\ catLast.op \in {"get_category", "update_category", "delete_category"}
     /\ catLast.category_id \notin DOMAIN catLast.before)
        => catLast.status = 404

\* C18 as stated: update_category on an existing category with only name, or
\* only description, supplied succeeds, sets the supplied field and leaves the
\* other field at its stored value.
C18_Claimed ==
    (/\ catLast.op = "update_category"
     /\ catLast.category_id \in DOMAIN catLast.before
     /\ (catLast.name = None) # (catLast.description = None)
     /\ \A c \in DOMAIN catLast.before :
            c # catLast.category_id =>
                catLast.before[c].categoryName # catLast.name)
        => /\ catLast.status = 200
           /\ categories[catLast.category_id] =
                LET old == catLast.before[catLast.category_id]
                IN  CategoryRow(
                        IF catLast.name = None THEN old.categoryName
                        ELSE catLast.name,
                        IF catLast.description = None THEN old.categoryDescription
                        ELSE catLast.description)

----------------------------------------------------------------------------
(* routes/location.py: get_location, create_location, update_location,     *)
(* delete_location                                                         *)
(*                                                                         *)
(* Coordinates are counted in units of 10^-9 degree, so that a request     *)
(* can carry one digit more than the eight fractional digits the columns   *)
(* latitude DECIMAL(10, 8) and longitude DECIMAL(11, 8) keep.  A request   *)
(* body is a function from the fields it supplies to their values.         *)

MaxLocations == 2
LocationIDs == 1..MaxLocations

LocationFields ==
    {"latitude", "longitude", "street", "district", "city", "state",
     "country", "postalCode", "landmark"}

\* the value a DECIMAL(m, 8) column stores for an exact decimal literal:
\* rounded half away from zero to eight fractional digits, that is to a
\* multiple of ten units of 10^-9
Decimal8(n) ==
    IF n >= 0 THEN ((n + 5) \div 10) * 10
    ELSE 0 - (((0 - n) + 5) \div 10) * 10

\* the row the INSERT / UPDATE statement leaves in the table
StoredLocation(row) ==
    [row EXCEPT !.latitude = Decimal8(@), !.longitude = Decimal8(@)]

Latitudes == {0, 123456789}
Longitudes == {0, 0 - 20}

\* a POST body: landmark is optional
LocationCreate(lat, lon) ==
    [latitude |-> lat, longitude |-> lon, street |-> "MG Road",
     district |-> "Pune", city |-> "Pune", state |-> "Maharashtra",
     country |-> "India", postalCode |-> "411001", landmark |-> None]

CreateBodies ==
    {LocationCreate(lat, lon) : lat \in Latitudes, lon \in Longitudes}

NewValues(lat, lon) ==
    [latitude |-> lat, longitude |-> lon, street |-> "FC Road",
     district |-> "Thane", city |-> "Mumbai", state |-> "Goa",
     country |-> "Nepal", postalCode |-> "400001", landmark |-> "Clock tower"]

\* the fields a PUT body supplies
UpdateFieldSets ==
    {{}, {"latitude"}, {"longitude"}, {"street"}, {"postalCode", "landmark"},
     {"district", "city", "state", "country"}}

LocationUpdate(F, lat, lon) ==
    [f \in F |-> NewValues(lat, lon)[f]]

UpdateBodies ==
    {LocationUpdate(F, lat, lon) :
        F \in UpdateFieldSets, lat \in Latitudes, lon \in Longitudes}

LocDone(op, location_id, data, status, body, before, created) ==
    [op |-> op, location_id |-> location_id, data |-> data, status |-> status,
     body |-> body, before |-> before, created |-> created]

\* the create request that returned location_id, when it is the request
\* answered just before
JustCreated(rec, location_id) ==
    IF rec.op = "create_location" /\ rec.status = 201
       /\ rec.body.id = location_id
    THEN [op |-> "create_location", data |-> rec.data]
    ELSE NoRequest

locOther == <<voteVars, imageVars, growthVars, searchVars, categoryVars,
              authVars, connVars, trendVars, handlerVars>>

get_location(location_id) ==
    /\ locLast' =
         IF location_id \in DOMAIN locations
         THEN LocDone("get_location", location_id, << >>, 200,
                      locations[location_id], locations,
                      JustCreated(locLast, location_id))
         ELSE LocDone("get_location", location_id, << >>, RaisedInTry(404),
                      << >>, locations, NoRequest)
    /\ UNCHANGED <<locations, nextLocationID, locOther>>

create_location(data) ==
    /\ get_token_user
    /\ nextLocationID <= MaxLocations
    /\ locations' = [l \in DOMAIN locations \cup {nextLocationID} |->
                        IF l = nextLocationID THEN StoredLocation(data)
                        ELSE locations[l]]
    /\ nextLocationID' = nextLocationID + 1
    /\ locLast' = LocDone("create_location", LastRowID(nextLocationID), data,
                          201, [id |-> LastRowID(nextLocationID)], locations,
                          NoRequest)
    /\ UNCHANGED locOther

\* data.X if data.X is not None else existing['X'], for every column X
MergeLocation(data, existing) ==
    [f \in LocationFields |-> IF f \in DOMAIN data THEN data[f] ELSE existing[f]]

update_location(location_id, data) ==
    /\ get_token_user
    /\ IF location_id \notin DOMAIN locations
       THEN /\ locations' = locations
            /\ locLast' = LocDone("update_location", location_id, data,
                                  RaisedInTry(404), << >>, locations, NoRequest)
       ELSE /\ locations' =
                 [locations EXCEPT ![location_id] =
                     StoredLocation(MergeLocation(data, locations[location_id]))]
            /\ locLast' = LocDone("update_location", location_id, data, 200,
                                  << >>, locations, NoRequest)
    /\ UNCHANGED <<nextLocationID, locOther>>

delete_location(location_id) ==
    /\ get_token_user
    /\ IF location_id \in DOMAIN locations
       THEN /\ locations' = [l \in DOMAIN locations \ {location_id} |->
                                locations[l]]
            /\ locLast' = LocDone("delete_location", location_id, << >>, 200,
                                  << >>, locations, NoRequest)
       ELSE /\ locations' = locations
            /\ locLast' = LocDone("delete_location", location_id, << >>,
                                  RaisedInTry(404), << >>, locations, NoRequest)
    /\ UNCHANGED <<nextLocationID, locOther>>

InitLocation ==
    /\ locations = << >>
    /\ nextLocationID = 1
    /\ locLast = NoRequest
    /\ IdleHandlers
    /\ InitVotes
    /\ InitOther
    /\ IdleSearch
    /\ IdleCategory
    /\ IdleAuth
    /\ IdleConn
    /\ IdleTrend

NextLocation ==
    \/ \E l \in LocationIDs : get_location(l)
    \/ \E data \in CreateBodies : create_location(data)
    \/ \E l \in LocationIDs, data \in UpdateBodies : update_location(l, data)
    \/ \E l \in LocationIDs : delete_location(l)

SpecLocation == InitLocation /\ [][NextLocation]_vars

(* Claims about the location handlers *)

\* C16 as stated: after create succeeds and returns id, get by that id
\* returns a record whose fields equal the values given to create.
C16_Claimed ==
    (locLast.op = "get_location" /\ locLast.created.op = "create_location")
        => /\ locLast.status = 200
           /\ \A f \in LocationFields : locLast.body[f] = locLast.created.data[f]

\* C17 as stated: update_location on an existing record with a partial
\* payload sets every provided field to its new value and leaves every
\* omitted field at its stored value; no other record changes.
C17_Claimed ==
    (locLast.op = "update_location"
     /\ locLast.location_id \in DOMAIN locLast.before)
        => /\ locLast.status = 200
           /\ DOMAIN locations = DOMAIN locLast.before
           /\ \A f \in LocationFields :
                locations[locLast.location_id][f] =
                    IF f \in DOMAIN locLast.data THEN locLast.data[f]
                    ELSE locLast.before[locLast.location_id][f]
           /\ \A l \in DOMAIN locations :
                l # locLast.location_id => locations[l] = locLast.before[l]

----------------------------------------------------------------------------
(* routes/auth.py: register, login                                         *)
(*                                                                         *)
(* users maps userID to (username, password, role), user_info maps userID  *)
(* to (email, contactNumber); username, email and contactNumber are        *)
(* UNIQUE.  register stores the bcrypt hash of the password, login         *)
(* compares the password it is given with the stored string.               *)

Usernames == {"asha", "ravi"}
Emails == {"asha@example.in", "ravi@example.in"}
ContactNumbers == {"9000000001", "9000000002"}

\* bcrypt.hashpw(password, bcrypt.gensalt()), for one salt
hashpw(password) ==
    IF password = "secret1" THEN "$2b$12$saltsaltsaltsaltsaltsOhashofsecret1"
    ELSE "$2b$12$saltsaltsaltsaltsaltsOhashofanother"

\* the passwords a client sends: a password, and the text of its hash
Passwords == {"secret1", hashpw("secret1")}

\* password == stored_password
verify_password(password, stored_password) == password = stored_password

\* the bearer token of a user
generate_token(user_id) == <<"token", user_id>>

UserRow(username, password, role) ==
    [username |-> username, password |-> password, role |-> role]

UserInfoRow(email, contactNumber) ==
    [email |-> email, contactNumber |-> contactNumber]

\* SELECT * FROM users u JOIN user_info ui ... WHERE u.username = %s OR ui.email = %s
UsernameOrEmailExists(us, ui, username, email) ==
    {u \in DOMAIN us \cap DOMAIN ui :
        us[u].username = username \/ ui[u].email = email}

AuthDone(op, data, status, body) ==
    [op |-> op, data |-> data, status |-> status, body |-> body,
     before |-> [users |-> users, user_info |-> user_info]]

authOther == <<voteVars, imageVars, growthVars, searchVars, categoryVars,
               locationVars, connVars, trendVars, handlerVars>>

\* mutant: the connection commits every statement as it runs
Uncommitted_autocommit(committed, written) == written

\* the connection is closed without conn.commit(): the server discards what
\* the statements of the request wrote
Uncommitted(committed, written) == committed

\* INSERT INTO t ... with primary key user_id
InsertRow(t, user_id, row) ==
    [u \in DOMAIN t \cup {user_id} |-> IF u = user_id THEN row ELSE t[u]]

register(username, password, email, contactNumber) ==
    LET data == [username |-> username, password |-> password,
                 email |-> email, contactNumber |-> contactNumber]
        user_id == LastRowID(nextUserID)
        inserted == InsertRow(users, user_id,
                              UserRow(username, hashpw(password), "Regular"))
    IN  /\ nextUserID <= MaxUsers
        /\ IF UsernameOrEmailExists(users, user_info, username, email) # {}
           THEN /\ authLast' = AuthDone("register", data, RaisedInTry(400), << >>)
                /\ UNCHANGED <<users, user_info, nextUserID>>
           ELSE IF \E u \in DOMAIN user_info :
                      user_info[u].contactNumber = contactNumber
           THEN \* the second INSERT raises after the first one has run
                /\ authLast' = AuthDone("register", data, 500, << >>)
                /\ nextUserID' = nextUserID + 1
                /\ users' = Uncommitted(users, inserted)
                /\ user_info' = user_info
           ELSE /\ users' = inserted
                /\ user_info' = InsertRow(user_info, user_id,
                                          UserInfoRow(email, contactNumber))
                /\ nextUserID' = nextUserID + 1
                /\ authLast' = AuthDone("register", data, 201, [id |-> user_id])
        /\ UNCHANGED authOther

login(username, password) ==
    LET data == [username |-> username, password |-> password]
        found == {u \in DOMAIN users : users[u].username = username}
    IN  /\ IF \E u \in found : verify_password(password, users[u].password)
           THEN \E u \in found :
                  authLast' = AuthDone("login", data, 200,
                                [token |-> generate_token(u),
                                 user |-> [id |-> u,
                                           username |-> users[u].username,
                                           role |-> users[u].role]])
           ELSE authLast' = AuthDone("login", data, RaisedInTry(401), << >>)
        /\ UNCHANGED <<users, user_info, nextUserID, authOther>>

InitAuth ==
    /\ users = << >>
    /\ user_info = << >>
    /\ nextUserID = 1
    /\ authLast = NoRequest
    /\ IdleHandlers
    /\ InitVotes
    /\ InitOther
    /\ IdleSearch
    /\ IdleCategory
    /\ IdleLocation
    /\ IdleConn
    /\ IdleTrend

NextAuth ==
    \/ \E n \in Usernames, p \in Passwords, e \in Emails, c \in ContactNumbers :
          register(n, p, e, c)
    \/ \E n \in Usernames, p \in Passwords : login(n, p)

SpecAuth == InitAuth /\ [][NextAuth]_vars

(* Claims about register and login *)

\* C14 as stated: register with a username or an email that an existing user
\* already has is answered with status 400 and inserts no row into users or
\* user_info.
C14_Claimed ==
    (/\ authLast.op = "register"
     /\ \E u \in DOMAIN authLast.before.users :
          \/ authLast.before.users[u].username = authLast.data.username
          \/ authLast.before.user_info[u].email = authLast.data.email)
        => /\ authLast.status = 400
           /\ users = authLast.before.users
           /\ user_info = authLast.before.user_info

\* C15 as stated: login with an unknown username, or with a password that
\* does not match the stored one, is answered with status 401 and returns no
\* user data.
C15_Claimed ==
    (/\ authLast.op = "login"
     /\ \A u \in DOMAIN authLast.before.users :
          \/ authLast.before.users[u].username # authLast.data.username
          \/ authLast.before.users[u].password # authLast.data.password)
        => /\ authLast.status = 401
           /\ authLast.body = << >>

\* C26 as stated: after register has succeeded for (username, password),
\* login with that username and that password succeeds and returns that
\* user's id, username and role 'Regular'.
C26_Claimed ==
    authLast.op = "login" =>
        \A u \in DOMAIN authLast.before.users :
            (/\ authLast.before.users[u].username = authLast.data.username
             /\ authLast.before.users[u].password = hashpw(authLast.data.password))
                => /\ authLast.status = 200
                   /\ authLast.body.user =
                        [id |-> u, username |-> authLast.data.username,
                         role |-> "Regular"]

\* C28: register never leaves a users row without its user_info row; when
\* the user_info INSERT fails after the users INSERT has run, on a duplicate
\* contactNumber, neither row is in the tables once the request has
\* completed.
C28_NoHalfUser ==
    /\ DOMAIN users = DOMAIN user_info
    /\ (authLast.op = "register" /\ authLast.status # 201) =>
          /\ users = authLast.before.users
          /\ user_info = authLast.before.user_info

C28_Witness ==
    /\ authLast.op = "register"
    /\ authLast.status = 500
    /\ \A u \in DOMAIN authLast.before.users :
          /\ authLast.before.users[u].username # authLast.data.username
          /\ authLast.before.user_info[u].email # authLast.data.email
    /\ \E u \in DOMAIN authLast.before.user_info :
          authLast.before.user_info[u].contactNumber = authLast.data.contactNumber
    /\ \A u \in DOMAIN users : users[u].username # authLast.data.username

----------------------------------------------------------------------------
(* Connection handling of the request handlers: routes/vote.py vote_report, *)
(* routes/image.py upload_image, utils/image_helpers.py                    *)
(* get_images_for_report                                                   *)
(*                                                                         *)
(* A handler is the sequence of the statements of its try block that can   *)
(* raise, followed by its finally block.  A request runs the statements    *)
(* up to the one that raises, if any, and then the finally block.          *)
(* connections and cursors hold the requests whose connection or cursor    *)
(* is open after the request has completed.                                *)

MaxConnRequests == 4

Handlers == {"vote_report", "upload_image", "get_images_for_report"}

\* the statements of the try block, in program order
TryBlock(handler) ==
    IF handler = "upload_image"
    THEN <<"write file", "get_db_connection", "cursor", "execute">>
    ELSE <<"get_db_connection", "cursor", "execute">>

\* the statement has run to its end when the try block is left; raises = 0
\* when no statement raises
Completed(handler, statement, raises) ==
    \E i \in DOMAIN TryBlock(handler) :
        /\ TryBlock(handler)[i] = statement
        /\ raises = 0 \/ i < raises

\* finally: cursor.close(); conn.close() -- cursor.close() raises
\* UnboundLocalError when cursor was never assigned, and conn.close() is
\* then not reached
FinallyUnguarded(conn_bound, cursor_bound) ==
    [cursor_closed |-> cursor_bound,
     conn_closed |-> cursor_bound /\ conn_bound,
     raised |-> ~cursor_bound]

\* finally: if should_close_cursor and cursor: cursor.close()
\*          if should_close_conn and connection: connection.close()
FinallyGuarded(conn_bound, cursor_bound) ==
    [cursor_closed |-> cursor_bound,
     conn_closed |-> conn_bound,
     raised |-> FALSE]

Finally(handler, conn_bound, cursor_bound) ==
    IF handler = "get_images_for_report"
    THEN FinallyGuarded(conn_bound, cursor_bound)
    ELSE FinallyUnguarded(conn_bound, cursor_bound)

\* one request: raises is the index of the statement that raises, 0 for none
handle_request(handler, raises) ==
    LET n == IF connReq.pc = "idle" THEN 1 ELSE connReq.n + 1
        conn_bound == Completed(handler, "get_db_connection", raises)
        cursor_bound == Completed(handler, "cursor", raises)
        fin == Finally(handler, conn_bound, cursor_bound)
    IN  /\ n <= MaxConnRequests
        /\ connections' = IF conn_bound /\ ~fin.conn_closed
                          THEN connections \cup {n} ELSE connections
        /\ cursors' = IF cursor_bound /\ ~fin.cursor_closed
                      THEN cursors \cup {n} ELSE cursors
        /\ connReq' = [pc |-> "done", n |-> n, handler |-> handler,
                       raises |-> raises, opened |-> conn_bound,
                       status |-> IF raises = 0 /\ ~fin.raised THEN 200 ELSE 500]
        /\ UNCHANGED <<voteVars, imageVars, growthVars, searchVars,
                       categoryVars, locationVars, authVars, trendVars,
                       handlerVars>>

InitConn ==
    /\ connReq = IdleReq
    /\ connections = {}
    /\ cursors = {}
    /\ IdleHandlers
    /\ InitVotes
    /\ InitOther
    /\ IdleSearch
    /\ IdleCategory
    /\ IdleLocation
    /\ IdleAuth
    /\ IdleTrend

NextConn ==
    \E handler \in Handlers :
        \E raises \in 0..Len(TryBlock(handler)) : handle_request(handler, raises)

SpecConn == InitConn /\ [][NextConn]_vars

(* Claim about connection handling *)

\* C19 as stated: every request handler that opens a database connection
\* has closed that connection and its cursor when the request completes, on
\* every path, the paths where the connection attempt, the cursor creation, a
\* file write or an SQL statement raises included.
C19_Claimed ==
    connReq.pc = "done" =>
        /\ connReq.n \notin connections
        /\ connReq.n \notin cursors

----------------------------------------------------------------------------
(* analytics/report_analytics.py: get_report_analytics, the reports_trend  *)
(* query                                                                   *)
(*                                                                         *)
(* A DATETIME is counted in half days since 2024-01-01 00:00, a Monday.    *)
(* The reports table is the list of the createdAt values of its rows.  The *)
(* request carries both start_date and end_date; the category, location    *)
(* and recent-reports queries of the handler read the same table and do    *)
(* not enter reports_trend.                                                *)

MaxTrendReports == 2
MaxTrendTime == 5

EpochYear == 2024

\* the instants used as createdAt, start_date and end_date:
\* 2024-12-30 12:00, 2025-01-01 00:00, 2024-10-01 00:00, 2024-09-30 12:00,
\* 2024-12-29 12:00, 2024-12-30 00:00, 2025-01-01 12:00, 2025-01-06 00:00
SampleTimes == <<729, 732, 548, 547, 727, 728, 733, 742>>

TrendTimes == {SampleTimes[i] : i \in 1..MaxTrendTime}

TrendPeriods == {"daily", "weekly", "monthly", "quarterly", "yearly"}

IsLeap(y) == (y % 4 = 0 /\ y % 100 # 0) \/ y % 400 = 0

DaysInYear(y) == IF IsLeap(y) THEN 366 ELSE 365

DaysInMonth(y, m) ==
    IF m = 2 THEN (IF IsLeap(y) THEN 29 ELSE 28)
    ELSE IF m \in {4, 6, 9, 11} THEN 30 ELSE 31

\* year and day of the year (from 0) of the day that is n days after 1 January of y
RECURSIVE YearDay(_, _)
YearDay(y, n) ==
    IF n < DaysInYear(y) THEN [year |-> y, yday |-> n]
    ELSE YearDay(y + 1, n - DaysInYear(y))

\* month and day of the month of the day that is n days after the first of month m
RECURSIVE MonthDay(_, _, _)
MonthDay(y, m, n) ==
    IF n < DaysInMonth(y, m) THEN [month |-> m, day |-> n + 1]
    ELSE MonthDay(y, m + 1, n - DaysInMonth(y, m))

\* the calendar date of a DATETIME; weekday 0 is Monday
DateOf(t) ==
    LET days == t \div 2
        yd == YearDay(EpochYear, days)
        md == MonthDay(yd.year, 1, yd.yday)
    IN  [year |-> yd.year, month |-> md.month, day |-> md.day,
         yday |-> yd.yday, weekday |-> days % 7]

\* %u: WEEK(date, 1), weeks start on Monday, week 1 is the first week with
\* four or more days in the year, the days before it are in week 0
Week(d) ==
    LET jan1 == (d.weekday + 7 * 53 - d.yday) % 7
    IN  IF jan1 <= 3 THEN (d.yday + jan1) \div 7 + 1
        ELSE (d.yday + jan1) \div 7

\* QUARTER(date)
Quarter(d) == (d.month - 1) \div 3 + 1

\* DATE_FORMAT(r.createdAt, time_format), or CONCAT(YEAR, '-Q', QUARTER):
\* the fields of the formatted string, in their order
DateFormat(period, createdAt) ==
    LET d == DateOf(createdAt)
    IN  CASE period = "weekly" -> <<d.year, Week(d)>>
          [] period = "monthly" -> <<d.year, d.month>>
          [] period = "quarterly" -> <<d.year, Quarter(d)>>
          [] period = "yearly" -> <<d.year>>
          [] OTHER -> <<d.year, d.month, d.day>>

TrendWhere_exclusive(createdAt, start_date, end_date) ==
    createdAt >= start_date /\ createdAt < end_date

\* WHERE 1=1 AND r.createdAt >= %s AND r.createdAt <= %s
TrendWhere(createdAt, start_date, end_date) ==
    createdAt >= start_date /\ createdAt <= end_date

\* ORDER BY date on zero-padded fields: field by field
RECURSIVE DateBefore(_, _)
DateBefore(a, b) ==
    /\ a # << >>
    /\ \/ Head(a) < Head(b)
       \/ Head(a) = Head(b) /\ DateBefore(Tail(a), Tail(b))

\* SELECT <format> as date, COUNT(r.reportID) as count ... GROUP BY date
\* ORDER BY date
TrendQuery(table, period, start_date, end_date) ==
    LET rows == {i \in DOMAIN table : TrendWhere(table[i], start_date, end_date)}
        dates == {DateFormat(period, table[i]) : i \in rows}
        count(date) == Cardinality({i \in rows : DateFormat(period, table[i]) = date})
        order == CHOOSE o \in [1..Cardinality(dates) -> dates] :
                    \A i, j \in DOMAIN o : i < j => DateBefore(o[i], o[j])
    IN  [b \in DOMAIN order |-> [date |-> order[b], count |-> count(order[b])]]

get_report_analytics(period, start_date, end_date) ==
    /\ trendLast' = [op |-> "get_report_analytics", period |-> period,
                     start_date |-> start_date, end_date |-> end_date,
                     reports_trend |->
                         TrendQuery(trend_reports, period, start_date, end_date)]
    /\ UNCHANGED <<trend_reports, voteVars, imageVars, growthVars, searchVars,
                   categoryVars, locationVars, authVars, connVars, handlerVars>>

\* reports tables, listed by createdAt
TrendTables ==
    UNION {{t \in [1..n -> TrendTimes] : \A i, j \in 1..n : i < j => t[i] <= t[j]} :
           n \in 0..MaxTrendReports}

InitTrend ==
    /\ trend_reports \in TrendTables
    /\ trendLast = NoRequest
    /\ IdleHandlers
    /\ InitVotes
    /\ InitOther
    /\ IdleSearch
    /\ IdleCategory
    /\ IdleLocation
    /\ IdleAuth
    /\ IdleConn

NextTrend ==
    \E period \in TrendPeriods, start_date \in TrendTimes, end_date \in TrendTimes :
        /\ start_date <= end_date
        /\ get_report_analytics(period, start_date, end_date)

SpecTrend == InitTrend /\ [][NextTrend]_vars

(* Claim about reports_trend *)

RECURSIVE SumCounts(_)
SumCounts(trend) ==
    IF trend = << >> THEN 0 ELSE Head(trend).count + SumCounts(Tail(trend))

\* the reports whose createdAt lies in [start_date, end_date] of the last request
InRange ==
    {i \in DOMAIN trend_reports :
        /\ trendLast.start_date <= trend_reports[i]
        /\ trend_reports[i] <= trendLast.end_date}

\* C20: with a valid period, start_date and end_date, every report whose
\* createdAt lies in [start_date, end_date] is counted in exactly one bucket
\* of reports_trend, the one keyed by its day, year-week, year-month,
\* year-quarter or year; every bucket counts the reports in the range that
\* have its key, and the counts sum to the number of reports in the range.
C20_TrendBuckets ==
    trendLast.op = "get_report_analytics" =>
        LET trend == trendLast.reports_trend
            key(i) == DateFormat(trendLast.period, trend_reports[i])
        IN  /\ \A i \in InRange :
                 Cardinality({b \in DOMAIN trend : trend[b].date = key(i)}) = 1
            /\ \A b \in DOMAIN trend :
                 trend[b].count = Cardinality({i \in InRange : key(i) = trend[b].date})
            /\ SumCounts(trend) = Cardinality(InRange)

C20_Witness ==
    /\ trendLast.op = "get_report_analytics"
    /\ trendLast.period = "weekly"
    /\ Len(trend_reports) = 2
    /\ trend_reports[2] = trendLast.end_date
    /\ DateOf(trend_reports[1]).day # DateOf(trend_reports[2]).day
    /\ Len(trendLast.reports_trend) = 1
    /\ trendLast.reports_trend[1].count = 2

----------------------------------------------------------------------------
(* routes/user.py: update_user_profile, delete_user_profile;               *)
(* routes/report.py: create_report                                         *)
(*                                                                         *)
(* A reports row is (categoryID, locationID, userID); each of the three is *)
(* a foreign key without ON DELETE clause, so a DELETE of a referenced     *)
(* users row is refused.  A profile update carries username and role; the  *)
(* user_info fields of the body are left unset.                            *)

MaxCreated == 2

Roles == {"Regular", "Administrator"}

\* mutant: the statements that ran before the failure stay in the tables
Rollback_keeps(committed, written) == written

\* conn.rollback()
Rollback(committed, written) == committed

\* the rows of other tables that reference users.userID = user_id
UserReferenced(user_id) ==
    \/ \E r \in DOMAIN reports : reports[r].userID = user_id
    \/ \E row \in BagToSet(votes) : row.userID = user_id

userOther == <<voteVars, images, nextImageID, imgLast, growthVars, searchVars,
               categoryVars, locationVars, connVars, trendVars, userReq, files>>

\* PUT /api/user/profile/{user_id}
update_user_profile(user_id, data) ==
    LET named == IF "username" \in DOMAIN data
                 THEN [users EXCEPT ![user_id].username = data.username]
                 ELSE users
        written == IF "role" \in DOMAIN data
                   THEN [named EXCEPT ![user_id].role = data.role]
                   ELSE named
    IN  /\ IF user_id \notin DOMAIN users
           THEN /\ authLast' = AuthDone("update_user_profile",
                                        [user_id |-> user_id, body |-> data],
                                        404, << >>)
                /\ users' = users
           ELSE IF /\ "username" \in DOMAIN data
                   /\ \E u \in DOMAIN users :
                         u # user_id /\ users[u].username = data.username
           THEN /\ authLast' = AuthDone("update_user_profile",
                                        [user_id |-> user_id, body |-> data],
                                        400, << >>)
                /\ users' = users
           ELSE /\ authLast' = AuthDone("update_user_profile",
                                        [user_id |-> user_id, body |-> data],
                                        200, << >>)
                /\ users' = written
        /\ UNCHANGED <<user_info, nextUserID, reports, reportLast, nextReportID,
                       userOther>>

IsAdministrator_any(us, current_user_id) == current_user_id \in DOMAIN us

\* admin_user and admin_user[0] == 'Administrator'
IsAdministrator(us, current_user_id) ==
    /\ current_user_id \in DOMAIN us
    /\ us[current_user_id].role = "Administrator"

\* DELETE FROM t WHERE userID = user_id
DeleteUser(t, user_id) == [u \in DOMAIN t \ {user_id} |-> t[u]]

\* DELETE /api/user/profile/{user_id}?current_user_id=...
delete_user_profile(user_id, current_user_id) ==
    LET data == [user_id |-> user_id, current_user_id |-> current_user_id]
        written == [users |-> DeleteUser(users, user_id),
                    user_info |-> DeleteUser(user_info, user_id)]
        committed == [users |-> users, user_info |-> user_info]
        refused == UserReferenced(user_id)
        status == IF current_user_id = NoFilter THEN 400
                  ELSE IF user_id = current_user_id THEN 403
                  ELSE IF ~IsAdministrator(users, current_user_id) THEN 403
                  ELSE IF user_id \notin DOMAIN users THEN 404
                  ELSE IF refused THEN 500
                  ELSE 200
        after == IF status = 200 THEN written
                 ELSE IF status = 500 THEN Uncommitted(committed, written)
                 ELSE committed
    IN  /\ authLast' = AuthDone("delete_user_profile", data, status, << >>)
        /\ users' = after.users
        /\ user_info' = after.user_info
        /\ UNCHANGED <<nextUserID, reports, reportLast, nextReportID, userOther>>

\* get_user_id: the user_id query parameter, 1 when it is not given
get_user_id(user_id) == IF user_id = NoFilter THEN 1 ELSE user_id

\* the rows fetchone() can return for SELECT UserID FROM Users [WHERE ...]
\* LIMIT 1, a statement without ORDER BY
FetchOne(rows) == rows

\* mutant: no preference for an Administrator
ReportUsers_anyuser(us, user_id) ==
    IF user_id \in DOMAIN us THEN {user_id} ELSE FetchOne(DOMAIN us)

\* the users create_report can store the report under
ReportUsers(us, user_id) ==
    IF user_id \in DOMAIN us THEN {user_id}
    ELSE IF {u \in DOMAIN us : us[u].role = "Administrator"} # {}
         THEN FetchOne({u \in DOMAIN us : us[u].role = "Administrator"})
    ELSE FetchOne(DOMAIN us)

StoredReport(data, user_id) ==
    [categoryID |-> data.categoryID, locationID |-> data.locationID,
     userID |-> user_id]

\* the foreign keys of the INSERT INTO reports hold
ReferencesExist(row) ==
    /\ row.categoryID \in DOMAIN categories
    /\ row.locationID \in DOMAIN locations
    /\ row.userID \in DOMAIN users

ReportDone(op, params, status, body) ==
    [op |-> op, params |-> params, status |-> status, body |-> body,
     before |-> [users |-> users, reports |-> reports, votes |-> votes,
                 images |-> images]]

\* POST /api/report/?user_id=...
create_report(data, user_id) ==
    LET params == [user_id |-> user_id, data |-> data]
        owners == ReportUsers(users, get_user_id(user_id))
    IN  /\ nextReportID <= MaxCreated
        /\ IF owners = {}
           THEN /\ reportLast' = ReportDone("create_report", params,
                                            RaisedInTry(400), << >>)
                /\ UNCHANGED <<reports, nextReportID>>
           ELSE \E owner \in owners :
                  IF ReferencesExist(StoredReport(data, owner))
                  THEN /\ reports' =
                            [r \in DOMAIN reports \cup {nextReportID} |->
                                IF r = nextReportID THEN StoredReport(data, owner)
                                ELSE reports[r]]
                       /\ nextReportID' = nextReportID + 1
                       /\ reportLast' = ReportDone("create_report", params, 201,
                                                   [id |-> LastRowID(nextReportID)])
                  ELSE /\ reports' = reports
                       /\ nextReportID' = nextReportID + 1
                       /\ reportLast' = ReportDone("create_report", params, 500,
                                                   << >>)
        /\ UNCHANGED <<authVars, userOther>>

\* the bodies of the profile updates
ProfileUpdates ==
    {[username |-> n] : n \in Usernames} \cup {[role |-> r] : r \in Roles}

\* the bodies of the report requests: category 1 and location 1 exist
ReportBodies ==
    {[categoryID |-> c, locationID |-> 1] : c \in 1..2}

\* the registration of the person named n: one password, and the email and
\* contact number of that person
register_user(n) ==
    IF n = "asha" THEN register(n, "secret1", "asha@example.in", "9000000001")
    ELSE register(n, "secret1", "ravi@example.in", "9000000002")

InitUser ==
    /\ InitVotes
    /\ InitOther
    /\ InitResources

NextUser ==
    \/ \E n \in Usernames : register_user(n)
    \/ \E u \in UserIDs, data \in ProfileUpdates : update_user_profile(u, data)
    \/ \E u \in UserIDs, c \in UserIDs \cup {NoFilter} : delete_user_profile(u, c)

SpecUser == InitUser /\ [][NextUser]_vars

\* the users row of the registered user u, whose username is "user" u
SeedUser(u, role) == UserRow(<<"user", u>>, hashpw("secret1"), role)

\* users tables: any of the users 1..MaxUsers, each Regular or Administrator
UserTables ==
    UNION {{[u \in D |-> SeedUser(u, roles[u])] : roles \in [D -> Roles]} :
           D \in SUBSET UserIDs}

\* the users are registered, category 1 and location 1 exist, no report yet
InitCreate ==
    /\ InitVotes
    /\ InitOther
    /\ IdleSearch
    /\ IdleConn
    /\ IdleTrend
    /\ IdleHandlers
    /\ users \in UserTables
    /\ user_info = [u \in DOMAIN users |-> UserInfoRow(<<"email", u>>,
                                                         <<"contact", u>>)]
    /\ nextUserID = MaxUsers + 1
    /\ authLast = NoRequest
    /\ categories = <<CategoryRow("Pothole", "short")>>
    /\ nextCategoryID = 2
    /\ catLast = NoRequest
    /\ locations = <<StoredLocation(LocationCreate(0, 0))>>
    /\ nextLocationID = 2
    /\ locLast = NoRequest

NextCreate ==
    \/ \E data \in ReportBodies, u \in UserIDs \cup {NoFilter, MaxUsers + 1} :
          create_report(data, u)
    \/ \E u \in UserIDs, c \in UserIDs : delete_user_profile(u, c)

SpecCreate == InitCreate /\ [][NextCreate]_vars

(* Claims about delete_user_profile and create_report *)

UserDeleted == authLast.op = "delete_user_profile"

\* the caller of the last delete request is given, is not the target and is
\* an Administrator
AdminCaller ==
    /\ authLast.data.current_user_id # NoFilter
    /\ authLast.data.current_user_id # authLast.data.user_id
    /\ authLast.data.current_user_id \in DOMAIN authLast.before.users
    /\ authLast.before.users[authLast.data.current_user_id].role = "Administrator"

\* C21: delete_user_profile removes a user only when current_user_id is
\* given, differs from user_id and belongs to an Administrator, and then it
\* removes the rows of user_id and no other; otherwise no users or user_info
\* row is removed and the status is 400 when current_user_id is missing, 403
\* for self-deletion or a caller who is not an Administrator, 404 when the
\* caller passes and the target does not exist.
C21_DeleteUser ==
    UserDeleted =>
        LET d == authLast.data
            b == authLast.before
        IN  /\ (users # b.users \/ user_info # b.user_info) =>
                 /\ AdminCaller
                 /\ authLast.status = 200
                 /\ users = [u \in DOMAIN b.users \ {d.user_id} |-> b.users[u]]
                 /\ user_info =
                      [u \in DOMAIN b.user_info \ {d.user_id} |-> b.user_info[u]]
            /\ d.current_user_id = NoFilter => authLast.status = 400
            /\ (d.current_user_id # NoFilter /\ ~AdminCaller) =>
                 authLast.status = 403
            /\ (AdminCaller /\ d.user_id \notin DOMAIN b.users) =>
                 authLast.status = 404
            /\ authLast.status = 200 => d.user_id \notin DOMAIN users

C21_Witness ==
    /\ UserDeleted
    /\ authLast.status = 200
    /\ AdminCaller
    /\ authLast.data.user_id \in DOMAIN authLast.before.users
    /\ authLast.data.user_id \notin DOMAIN users
    /\ authLast.data.user_id \notin DOMAIN user_info
    /\ authLast.data.current_user_id \in DOMAIN users

ReportCreated == reportLast.op = "create_report" /\ reportLast.status = 201

\* C24: create_report stores the report under the requesting user_id (1 when
\* the parameter is not given) when that user exists; when it does not,
\* under an Administrator the LIMIT 1 query returns, else under a user it
\* returns; it creates no report when the users table is empty; every report
\* of the table references an existing user.
C24_ReportOwner ==
    /\ \A r \in DOMAIN reports : reports[r].userID \in DOMAIN users
    /\ reportLast.op = "create_report" =>
        LET b == reportLast.before
            requested == IF reportLast.params.user_id = NoFilter THEN 1
                         ELSE reportLast.params.user_id
            admins == {u \in DOMAIN b.users : b.users[u].role = "Administrator"}
            data == reportLast.params.data
        IN  /\ (/\ DOMAIN b.users # {}
                /\ data.categoryID \in DOMAIN categories
                /\ data.locationID \in DOMAIN locations) => ReportCreated
            /\ DOMAIN b.users = {} =>
                 /\ ~ReportCreated
                 /\ reports = b.reports
            /\ ReportCreated =>
                 LET id == reportLast.body.id
                 IN  /\ id \notin DOMAIN b.reports
                     /\ DOMAIN reports = DOMAIN b.reports \cup {id}
                     /\ \A r \in DOMAIN b.reports : reports[r] = b.reports[r]
                     /\ reports[id].categoryID = data.categoryID
                     /\ reports[id].locationID = data.locationID
                     /\ IF requested \in DOMAIN b.users
                        THEN reports[id].userID = requested
                        ELSE IF admins # {} THEN reports[id].userID \in admins
                        ELSE reports[id].userID \in DOMAIN b.users

C24_Witness ==
    /\ ReportCreated
    /\ reportLast.params.user_id \notin DOMAIN reportLast.before.users
    /\ reportLast.params.user_id # NoFilter
    /\ \E u \in DOMAIN users : users[u].role = "Regular"
    /\ users[reports[reportLast.body.id].userID].role = "Administrator"

----------------------------------------------------------------------------
(* register and update_user_profile running concurrently (SpecUserConc)    *)
(*                                                                         *)
(* Each request is its own connection and transaction: its existence       *)
(* check, its INSERT or UPDATE and its commit are separate steps.  users   *)
(* holds the committed rows; a row a transaction has written and not yet   *)
(* committed is kept in the request.  users.username is UNIQUE: a write    *)
(* of a username that a committed row of another user holds is refused, a  *)
(* write that meets an uncommitted write of the same username or row waits *)
(* for that transaction to end, or gives up at the lock wait timeout.      *)
(* Every request brings its own email and contact number.                  *)

InProgress(p) == userReq[p].pc \in {"checked", "written"}

\* the requests that are running when a request starts
Running(p) == {q \in Procs \ {p} : InProgress(q)}

\* lines 69-76 of register: the existence check
register_check(p, username) ==
    /\ userReq[p].pc = "idle"
    /\ userReq' =
         [userReq EXCEPT ![p] =
            IF \E u \in DOMAIN users : users[u].username = username
            THEN [pc |-> "done", op |-> "register", username |-> username,
                  overlap |-> Running(p), at |-> "check",
                  status |-> RaisedInTry(400)]
            ELSE [pc |-> "checked", op |-> "register", username |-> username,
                  user_id |-> 0, overlap |-> Running(p)]]
    /\ UNCHANGED <<authVars, voteVars, imageVars, growthVars, searchVars,
                   categoryVars, locationVars, connVars, trendVars,
                   reportLast, nextReportID, files>>

\* lines 136-153 of update_user_profile: the two SELECTs
update_check(p, user_id, username) ==
    /\ userReq[p].pc = "idle"
    /\ userReq' =
         [userReq EXCEPT ![p] =
            IF user_id \notin DOMAIN users
            THEN [pc |-> "done", op |-> "update_user_profile",
                  username |-> username, overlap |-> Running(p),
                  at |-> "check", status |-> 404]
            ELSE IF \E u \in DOMAIN users :
                       u # user_id /\ users[u].username = username
            THEN [pc |-> "done", op |-> "update_user_profile",
                  username |-> username, overlap |-> Running(p),
                  at |-> "check", status |-> 400]
            ELSE [pc |-> "checked", op |-> "update_user_profile",
                  username |-> username, user_id |-> user_id,
                  overlap |-> Running(p)]]
    /\ UNCHANGED <<authVars, voteVars, imageVars, growthVars, searchVars,
                   categoryVars, locationVars, connVars, trendVars,
                   reportLast, nextReportID, files>>

\* mutant: the column has no unique index
DuplicateKey_unenforced(us, username, user_id) == FALSE

\* the UNIQUE index on users.username refuses the write
DuplicateKey(us, username, user_id) ==
    \E u \in DOMAIN us : u # user_id /\ us[u].username = username

\* another transaction holds the lock on the index entry or on the row
LockHeld(p) ==
    \E q \in Procs \ {p} :
        /\ userReq[q].pc = "written"
        /\ \/ userReq[q].username = userReq[p].username
           \/ userReq[q].user_id = userReq[p].user_id

\* lines 83-96 of register, lines 154-157 of update_user_profile: the write
user_write(p) ==
    /\ userReq[p].pc = "checked"
    /\ IF LockHeld(p)
       THEN \* lock wait timeout
            /\ userReq' = [userReq EXCEPT ![p] =
                             [pc |-> "done", op |-> @.op, username |-> @.username,
                              overlap |-> @.overlap, at |-> "write",
                              status |-> 500]]
            /\ UNCHANGED nextUserID
       ELSE IF DuplicateKey(users, userReq[p].username, userReq[p].user_id)
       THEN /\ userReq' = [userReq EXCEPT ![p] =
                             [pc |-> "done", op |-> @.op, username |-> @.username,
                              overlap |-> @.overlap, at |-> "write",
                              status |-> 500]]
            /\ nextUserID' = IF userReq[p].op = "register" THEN nextUserID + 1
                             ELSE nextUserID
       ELSE IF userReq[p].op = "register"
       THEN /\ userReq' = [userReq EXCEPT ![p].pc = "written",
                                          ![p].user_id = LastRowID(nextUserID)]
            /\ nextUserID' = nextUserID + 1
       ELSE /\ userReq' = [userReq EXCEPT ![p].pc = "written"]
            /\ UNCHANGED nextUserID
    /\ UNCHANGED <<users, user_info, authLast, voteVars, imageVars, growthVars,
                   searchVars, categoryVars, locationVars, connVars, trendVars,
                   reportLast, nextReportID, files>>

\* conn.commit() and the response
user_commit(p) ==
    /\ userReq[p].pc = "written"
    /\ IF userReq[p].op = "register"
       THEN /\ users' = [u \in DOMAIN users \cup {userReq[p].user_id} |->
                           IF u = userReq[p].user_id
                           THEN UserRow(userReq[p].username, hashpw("secret1"),
                                        "Regular")
                           ELSE users[u]]
            /\ user_info' = [u \in DOMAIN user_info \cup {userReq[p].user_id} |->
                               IF u = userReq[p].user_id
                               THEN UserInfoRow(<<"email", p>>, <<"contact", p>>)
                               ELSE user_info[u]]
       ELSE /\ users' = [users EXCEPT ![userReq[p].user_id].username =
                                          userReq[p].username]
            /\ user_info' = user_info
    /\ userReq' = [userReq EXCEPT ![p] =
                     [pc |-> "done", op |-> @.op, username |-> @.username,
                      overlap |-> @.overlap, at |-> "commit",
                      status |-> IF @.op = "register" THEN 201 ELSE 200]]
    /\ UNCHANGED <<nextUserID, authLast, voteVars, imageVars, growthVars,
                   searchVars, categoryVars, locationVars, connVars, trendVars,
                   reportLast, nextReportID, files>>

InitUserConc ==
    /\ InitVotes
    /\ InitOther
    /\ IdleSearch
    /\ IdleCategory
    /\ IdleLocation
    /\ IdleAuth
    /\ IdleConn
    /\ IdleTrend
    /\ userReq = [p \in Procs |-> IdleReq]
    /\ reportLast = NoRequest
    /\ nextReportID = 1
    /\ files = {}

NextUserConc ==
    \/ \E p \in Procs, n \in Usernames : register_check(p, n)
    \/ \E p \in Procs, u \in UserIDs, n \in Usernames : update_check(p, u, n)
    \/ \E p \in Procs : user_write(p)
    \/ \E p \in Procs : user_commit(p)

SpecUserConc == InitUserConc /\ [][NextUserConc]_vars

(* Claims about concurrent register and update_user_profile *)

\* p and q ran at the same time
Concurrent(p, q) ==
    /\ userReq[p].pc # "idle" /\ userReq[q].pc # "idle"
    /\ q \in userReq[p].overlap \/ p \in userReq[q].overlap

Registered(p) ==
    userReq[p].pc = "done" /\ userReq[p].op = "register" /\ userReq[p].status = 201

\* C22 as stated: no two users share a username in any reachable state, and
\* of two concurrent register requests for the same username at most one
\* succeeds.
C22_Claimed ==
    /\ \A u, v \in DOMAIN users : u # v => users[u].username # users[v].username
    /\ \A p, q \in Procs :
         (p # q /\ Concurrent(p, q) /\ Registered(p) /\ Registered(q))
            => userReq[p].username # userReq[q].username

Renamed(r) ==
    /\ userReq[r].pc = "done"
    /\ userReq[r].op = "update_user_profile"
    /\ userReq[r].status = 200

\* C22 amended: no two users share a username in any reachable state; two
\* concurrent register requests for the same username both succeed only
\* when an update_user_profile request has committed a new username in the
\* meantime, which frees the name the first of them took.
C22_UniqueUsername ==
    /\ \A u, v \in DOMAIN users : u # v => users[u].username # users[v].username
    /\ \A p, q \in Procs :
         (/\ p # q /\ Concurrent(p, q) /\ Registered(p) /\ Registered(q)
          /\ userReq[p].username = userReq[q].username)
            => \E r \in Procs \ {p, q} : Renamed(r)

C22_Witness ==
    \E p, q \in Procs :
        /\ p # q /\ Concurrent(p, q)
        /\ Registered(p)
        /\ userReq[q].pc = "done" /\ userReq[q].op = "register"
        /\ userReq[q].username = userReq[p].username
        /\ userReq[q].at = "write" /\ userReq[q].status = 500
        /\ Cardinality({u \in DOMAIN users :
                           users[u].username = userReq[p].username}) = 1

----------------------------------------------------------------------------
(* routes/report.py: delete_report                                         *)
(*                                                                         *)
(* The handler runs its three DELETE statements in one transaction.  A     *)
(* request names the statement that raises, 0 when none does.              *)

\* the tables delete_report writes
ReportData == [votes |-> votes, images |-> images, reports |-> reports]

\* DELETE FROM votes / images / reports WHERE reportID = report_id, the n-th
\* statement of the handler
DeleteStatement(n, t, report_id) ==
    CASE n = 1 -> [t EXCEPT !.votes =
                     [row \in {x \in BagToSet(t.votes) : x.reportID # report_id}
                        |-> t.votes[row]]]
      [] n = 2 -> [t EXCEPT !.images = {i \in t.images : i.reportID # report_id}]
      [] OTHER -> [t EXCEPT !.reports =
                     [r \in DOMAIN t.reports \ {report_id} |-> t.reports[r]]]

\* what the transaction has written when its first n statements have run
RECURSIVE Written(_, _, _)
Written(n, t, report_id) ==
    IF n = 0 THEN t
    ELSE DeleteStatement(n, Written(n - 1, t, report_id), report_id)

\* DELETE /api/report/{report_id}
delete_report(report_id, raises) ==
    LET params == [report_id |-> report_id, raises |-> raises]
        after == IF report_id \notin DOMAIN reports
                 THEN Rollback(ReportData, ReportData)
                 ELSE IF raises = 0 THEN Written(3, ReportData, report_id)
                 ELSE Rollback(ReportData,
                               Written(raises - 1, ReportData, report_id))
    IN  /\ reportLast' =
             ReportDone("delete_report", params,
                        IF report_id \notin DOMAIN reports THEN RaisedInTry(404)
                        ELSE IF raises = 0 THEN 200 ELSE 500,
                        << >>)
        /\ votes' = after.votes
        /\ images' = after.images
        /\ reports' = after.reports
        /\ UNCHANGED <<last, prev, req, nextImageID, imgLast, growthVars,
                       searchVars, categoryVars, locationVars, authVars,
                       connVars, trendVars, userReq, nextReportID, files>>

\* votes tables: at most one row for each user and voted report
VoteTables ==
    {SetToBag({VoteRow(pair[1], pair[2], X[pair]) : pair \in D}) :
        D \in SUBSET (VotedReports \X UserIDs), X \in [VotedReports \X UserIDs -> VoteTypes]}

\* the image a user uploaded for report r
UploadedImage(r) ==
    ImageRow(r, DbFilepath(UniqueFilename(r, <<"p", "i", "c">>, 1, UploadExt)), r)

InitDelete ==
    /\ last = NoRequest
    /\ prev = NoRequest
    /\ req = [p \in Procs |-> IdleReq]
    /\ \E D \in SUBSET ReportIDs : reports = [r \in D |-> ReportRow(1)]
    /\ votes \in {v \in VoteTables :
                    \A row \in BagToSet(v) : row.reportID \in DOMAIN reports}
    /\ \E D \in SUBSET DOMAIN reports : images = {UploadedImage(r) : r \in D}
    /\ nextImageID = MaxReports + 1
    /\ imgLast = NoRequest
    /\ period_results = << >>
    /\ growth_data = << >>
    /\ InitResources

NextDelete ==
    \E r \in ReportIDs, raises \in 0..3 : delete_report(r, raises)

SpecDelete == InitDelete /\ [][NextDelete]_vars

(* Claim about delete_report *)

\* the rows of the tables t that reference report r
Referencing(t, r) ==
    [votes |-> {row \in BagToSet(t.votes) : row.reportID = r},
     images |-> {i \in t.images : i.reportID = r}]

\* C23: delete_report is all-or-nothing: after a successful request the
\* report row and every vote and image row that references it are gone and
\* the rows of the other reports are as before; after a request that failed,
\* at whichever DELETE statement, votes, images and reports are as before;
\* no vote or image row ever references a report that does not exist.
C23_AllOrNothing ==
    /\ \A row \in BagToSet(votes) : row.reportID \in DOMAIN reports
    /\ \A i \in images : i.reportID \in DOMAIN reports
    /\ reportLast.op = "delete_report" =>
         LET b == reportLast.before
             r == reportLast.params.report_id
         IN  IF reportLast.status = 200
             THEN /\ r \in DOMAIN b.reports
                  /\ r \notin DOMAIN reports
                  /\ Referencing(ReportData, r) = [votes |-> {}, images |-> {}]
                  /\ \A o \in DOMAIN b.reports \ {r} :
                       /\ o \in DOMAIN reports
                       /\ reports[o] = b.reports[o]
                       /\ Referencing(ReportData, o) = Referencing(b, o)
                       /\ \A row \in Referencing(b, o).votes :
                            votes[row] = b.votes[row]
             ELSE /\ votes = b.votes
                  /\ images = b.images
                  /\ reports = b.reports

C23_Witness ==
    /\ reportLast.op = "delete_report"
    /\ reportLast.status = 500
    /\ reportLast.params.raises = 3
    /\ reportLast.params.report_id \in DOMAIN reports
    /\ Referencing(ReportData, reportLast.params.report_id).votes # {}
    /\ Referencing(ReportData, reportLast.params.report_id).images # {}

----------------------------------------------------------------------------
(* routes/image.py: upload_image, add_image_from_url, delete_image and the *)
(* upload folder (SpecFiles).  files holds the names of the files of the   *)
(* folder.                                                                 *)

\* the name add_image_from_url puts into its file name
UrlName == <<"u", "r", "l">>

\* POST /api/image/{report_id}/url: downloaded says whether requests.get
\* returned the image
add_image_from_url(report_id, timestamp, downloaded) ==
    /\ nextImageID <= MaxImages
    /\ IF ~downloaded
       THEN /\ UNCHANGED <<images, nextImageID, files>>
            /\ imgLast' = [op |-> "add_image_from_url", report |-> report_id,
                           status |-> 400]
       ELSE /\ files' = WriteFile(files, UniqueFilename(report_id, UrlName,
                                                       timestamp, UploadExt))
            /\ IF report_id \in DOMAIN reports
               THEN /\ InsertImage(DbFilepath(UniqueFilename(report_id, UrlName,
                                       timestamp, UploadExt)), report_id)
                    /\ imgLast' = [op |-> "add_image_from_url",
                                   report |-> report_id, status |-> 201,
                                   id |-> nextImageID]
               ELSE /\ UNCHANGED <<images, nextImageID>>
                    /\ imgLast' = [op |-> "add_image_from_url",
                                   report |-> report_id, status |-> 500]
    /\ UNCHANGED imgOther

\* image_url.startswith("http://localhost:8000/backend/uploads/")
IsLocal(image_url) ==
    /\ Len(image_url) >= Len(UploadPrefix)
    /\ SubSeq(image_url, 1, Len(UploadPrefix)) = UploadPrefix

\* os.path.basename(image_url): what follows the last "/"
RECURSIVE Basename(_)
Basename(image_url) ==
    IF \A k \in DOMAIN image_url : image_url[k] # "/" THEN image_url
    ELSE Basename(Tail(image_url))

\* if os.path.exists(filepath): os.remove(filepath)
RemoveFile(folder, image_url) ==
    IF IsLocal(image_url) THEN folder \ {Basename(image_url)} ELSE folder

\* DELETE /api/image/{image_id}: the file is removed before the DELETE
\* statement; raises says whether that statement raises
delete_image(image_id, raises) ==
    LET found == {i \in images : i.imageID = image_id}
    IN  /\ IF found = {}
           THEN /\ UNCHANGED <<images, files>>
                /\ imgLast' = [op |-> "delete_image", id |-> image_id,
                               status |-> RaisedInTry(404)]
           ELSE /\ files' = RemoveFile(files, (CHOOSE i \in found : TRUE).imageURL)
                /\ images' = IF raises THEN images ELSE images \ found
                /\ imgLast' = [op |-> "delete_image", id |-> image_id,
                               status |-> IF raises THEN 500 ELSE 200]
        /\ UNCHANGED <<nextImageID, imgOther>>

NextFiles ==
    \/ \E r \in ReportIDs, n \in UploadNames, t \in Timestamps : upload_image(r, n, t)
    \/ \E r \in ReportIDs, t \in Timestamps, downloaded \in BOOLEAN :
          add_image_from_url(r, t, downloaded)
    \/ \E i \in 1..MaxImages, raises \in BOOLEAN : delete_image(i, raises)

SpecFiles == InitImages /\ [][NextFiles]_vars

(* Claims about uploads and the upload folder *)

\* C25 as stated: two distinct successful uploads, two uploads for the same
\* report with the same original filename within the same second included,
\* are stored under distinct filenames: no two images rows point to the same
\* file.
C25_Claimed ==
    \A i, j \in images : i.imageID # j.imageID => i.imageURL # j.imageURL

\* C29 as stated: after every completed upload_image or delete_image
\* request, succeeded or failed, an images row with a local upload URL
\* exists if and only if its file exists in the upload folder.
C29_Claimed ==
    imgLast.op \in {"upload_image", "delete_image"} =>
        /\ \A i \in images : IsLocal(i.imageURL) => Basename(i.imageURL) \in files
        /\ \A f \in files : \E i \in images : i.imageURL = DbFilepath(f)

----------------------------------------------------------------------------
(* routes/report.py: get_report_details (SpecDetails)                      *)
(*                                                                         *)
(* The query joins the report with its images and with its votes and       *)
(* groups by the report: the group has one row for every pair of an image  *)
(* and a vote of the report.  A side of a LEFT JOIN without a match        *)
(* contributes one row of NULLs, written as the empty set.                 *)

\* the rows of the votes table for report_id, one for each stored row
VoteRowsOf(v, report_id) ==
    UNION {{<<row, k>> : k \in 1..v[row]} :
           row \in {x \in BagToSet(v) : x.reportID = report_id}}

\* r LEFT JOIN rows: the matches, or one row of NULLs
LeftJoin(rows) == IF rows = {} THEN {{}} ELSE {{x} : x \in rows}

\* FROM reports r ... LEFT JOIN images i ... LEFT JOIN votes v ...
\* WHERE r.reportID = report_id
DetailsJoin(imgs, v, report_id) ==
    LeftJoin({i \in imgs : i.reportID = report_id})
        \X LeftJoin(VoteRowsOf(v, report_id))

\* SUM(CASE WHEN v.voteType = X THEN 1 ELSE 0 END) over the group
SumVotes(joined, X) ==
    Cardinality({j \in joined : \E x \in j[2] : x[1].voteType = X})

\* COUNT(DISTINCT i.imageID) over the group
CountImages(joined) == Cardinality(UNION {{i.imageID : i \in j[1]} : j \in joined})

\* GET /api/report/{report_id}/details
get_report_details(report_id) ==
    LET joined == DetailsJoin(images, votes, report_id)
    IN  /\ IF report_id \notin DOMAIN reports
           THEN reportLast' = ReportDone("get_report_details",
                                         [report_id |-> report_id],
                                         RaisedInTry(404), << >>)
           ELSE \E o \in GetImagesForReport(images, reports, report_id) :
                  reportLast' =
                      ReportDone("get_report_details", [report_id |-> report_id],
                                 200,
                                 [imageCount |-> CountImages(joined),
                                  upvotes |-> SumVotes(joined, "upvote"),
                                  downvotes |-> SumVotes(joined, "downvote"),
                                  images |-> o.result])
        /\ UNCHANGED <<voteVars, imageVars, growthVars, searchVars, categoryVars,
                       locationVars, authVars, connVars, trendVars, userReq,
                       nextReportID, files>>

\* the images users uploaded for report r, one a second after the other
UploadedImages(r) ==
    {ImageRow(2 * (r - 1) + k,
              DbFilepath(UniqueFilename(r, <<"p", "i", "c">>, k, UploadExt)), r) :
        k \in 1..2}

InitDetails ==
    /\ last = NoRequest
    /\ prev = NoRequest
    /\ req = [p \in Procs |-> IdleReq]
    /\ \E D \in SUBSET ReportIDs : reports = [r \in D |-> ReportRow(1)]
    /\ votes \in {v \in VoteTables :
                    \A row \in BagToSet(v) : row.reportID \in DOMAIN reports}
    /\ images \in SUBSET UNION {UploadedImages(r) : r \in DOMAIN reports}
    /\ nextImageID = 2 * MaxReports + 1
    /\ imgLast = NoRequest
    /\ period_results = << >>
    /\ growth_data = << >>
    /\ InitResources

NextDetails ==
    \/ \E r \in ReportIDs : get_report_details(r)
    \/ \E r \in ReportIDs, u \in UserIDs : get_report_votes(r, u)

SpecDetails == InitDetails /\ [][NextDetails]_vars

(* Claim about get_report_details *)

\* C27 as stated: for every report, with any number of images and votes
\* attached, the upvotes and downvotes returned by get_report_details equal
\* those returned by get_report_votes, the number of upvote and downvote
\* rows of the report.
C27_Claimed ==
    (reportLast.op = "get_report_details" /\ reportLast.status = 200) =>
        /\ reportLast.body.upvotes =
             GetReportVotes(votes, reportLast.params.report_id).upvotes
        /\ reportLast.body.downvotes =
             GetReportVotes(votes, reportLast.params.report_id).downvotes
        /\ (last.op = "get_report_votes"
            /\ last.report = reportLast.params.report_id) =>
               /\ reportLast.body.upvotes = last.upvotes
               /\ reportLast.body.downvotes = last.downvotes
====
